---- MODULE Spec2Model ----
(***************************************************************************)
(* Model of the player-record reconciliation core of ff_draft_assistant:   *)
(* the name/team/position normaliser and the deduplicator/merger of        *)
(* player_validator.py, the roster validator of nfl_roster_validator.py    *)
(* with its on-disk cache, the ADP cache of adp_integration.py and the     *)
(* record store of mongo_utils.py / local_store.py.                        *)
(*                                                                         *)
(* Python strings are sequences of one-character strings; Python values    *)
(* are one-field records whose field names the type: [str |-> <<"a">>].    *)
(***************************************************************************)
EXTENDS Integers, Sequences, FiniteSets, TLC

(***************************************************************************)
(* Python str primitives                                                   *)
(***************************************************************************)
LowerAlpha == <<"a","b","c","d","e","f","g","h","i","j","k","l","m",
                "n","o","p","q","r","s","t","u","v","w","x","y","z">>

UpperAlpha == <<"A","B","C","D","E","F","G","H","I","J","K","L","M",
                "N","O","P","Q","R","S","T","U","V","W","X","Y","Z">>

Digits == {"0","1","2","3","4","5","6","7","8","9"}

IsLower(c) == \E i \in DOMAIN LowerAlpha : LowerAlpha[i] = c

IsUpper(c) == \E i \in DOMAIN UpperAlpha : UpperAlpha[i] = c

IsAlpha(c) == IsLower(c) \/ IsUpper(c)

IsSpace(c) == c = " "

\* \w of the re module (ASCII subset)
IsWordChar(c) == IsAlpha(c) \/ c \in Digits \/ c = "_"

CharLower(c) == IF IsUpper(c)
                THEN LowerAlpha[CHOOSE i \in DOMAIN UpperAlpha : UpperAlpha[i] = c]
                ELSE c

CharUpper(c) == IF IsLower(c)
                THEN UpperAlpha[CHOOSE i \in DOMAIN LowerAlpha : LowerAlpha[i] = c]
                ELSE c

\* str.lower()
StrLower(s) == [i \in DOMAIN s |-> CharLower(s[i])]

\* str.upper()
StrUpper(s) == [i \in DOMAIN s |-> CharUpper(s[i])]

\* s[i:] with 1-based i
Drop(s, i) == SubSeq(s, i, Len(s))

RECURSIVE LStrip(_)
LStrip(s) == IF s # <<>> /\ IsSpace(Head(s)) THEN LStrip(Tail(s)) ELSE s

RECURSIVE RStrip(_)
RStrip(s) == IF s # <<>> /\ IsSpace(s[Len(s)])
             THEN RStrip(SubSeq(s, 1, Len(s) - 1)) ELSE s

\* str.strip()
Strip(s) == RStrip(LStrip(s))

\* ' '.join(s.split()): runs of whitespace become one space, ends are stripped
RECURSIVE CollapseFrom(_, _)
CollapseFrom(s, pendingSpace) ==
    IF s = <<>> THEN <<>>
    ELSE IF IsSpace(Head(s)) THEN CollapseFrom(Tail(s), TRUE)
    ELSE (IF pendingSpace THEN <<" ">> ELSE <<>>) \o <<Head(s)>>
         \o CollapseFrom(Tail(s), FALSE)

Collapse(s) == CollapseFrom(LStrip(s), FALSE)

\* str.title(): a letter that follows a letter is lower-cased, any other letter
\* is upper-cased
RECURSIVE TitleFrom(_, _)
TitleFrom(s, prevCased) ==
    IF s = <<>> THEN <<>>
    ELSE <<IF prevCased THEN CharLower(Head(s)) ELSE CharUpper(Head(s))>>
         \o TitleFrom(Tail(s), IsAlpha(Head(s)))

Title(s) == TitleFrom(s, FALSE)

\* str.replace(old, new) for a one-character old and a string new
RECURSIVE ReplaceChar(_, _, _)
ReplaceChar(s, old, new) ==
    IF s = <<>> THEN <<>>
    ELSE (IF Head(s) = old THEN new ELSE <<Head(s)>>)
         \o ReplaceChar(Tail(s), old, new)

\* s.startswith(p)
StartsWith(s, p) == Len(s) >= Len(p) /\ SubSeq(s, 1, Len(p)) = p

\* str.split(sep) for a one-character separator
RECURSIVE SplitOn(_, _)
SplitOn(s, sep) ==
    IF \A i \in DOMAIN s : s[i] # sep THEN <<s>>
    ELSE LET i == CHOOSE k \in DOMAIN s :
                      s[k] = sep /\ \A m \in 1..(k - 1) : s[m] # sep
         IN  <<SubSeq(s, 1, i - 1)>> \o SplitOn(Drop(s, i + 1), sep)

(***************************************************************************)
(* difflib.SequenceMatcher(None, a, b).ratio(), no junk (autojunk only     *)
(* applies to sequences of 200 or more elements)                           *)
(***************************************************************************)
\* length of the common run of a from i and b from j, inside [i, ahi) x [j, bhi)
RECURSIVE RunLen(_, _, _, _, _, _)
RunLen(a, b, i, j, ahi, bhi) ==
    IF i < ahi /\ j < bhi /\ a[i] = b[j]
    THEN 1 + RunLen(a, b, i + 1, j + 1, ahi, bhi)
    ELSE 0

Max(S) == CHOOSE x \in S : \A y \in S : y <= x

Min(S) == CHOOSE x \in S : \A y \in S : x <= y

\* find_longest_match(alo, ahi, blo, bhi): the longest matching block, the one
\* starting earliest in a and then earliest in b among the longest; <<i, j, k>>
\* with k = 0 when nothing matches.  Ranges are half open, indices 1-based.
find_longest_match(a, b, alo, ahi, blo, bhi) ==
    IF alo >= ahi \/ blo >= bhi THEN <<alo, blo, 0>>
    ELSE LET best == Max({RunLen(a, b, i, j, ahi, bhi) :
                            i \in alo..(ahi - 1), j \in blo..(bhi - 1)})
         IN  IF best = 0 THEN <<alo, blo, 0>>
             ELSE LET bi == Min({i \in alo..(ahi - 1) :
                                   \E j \in blo..(bhi - 1) :
                                       RunLen(a, b, i, j, ahi, bhi) = best})
                      bj == Min({j \in blo..(bhi - 1) :
                                   RunLen(a, b, bi, j, ahi, bhi) = best})
                  IN  <<bi, bj, best>>

\* sum of the sizes of get_matching_blocks(): the longest block, then the same
\* to its left and to its right
RECURSIVE MatchCount(_, _, _, _, _, _)
MatchCount(a, b, alo, ahi, blo, bhi) ==
    LET m == find_longest_match(a, b, alo, ahi, blo, bhi)
    IN  IF m[3] = 0 THEN 0
        ELSE m[3] + MatchCount(a, b, alo, m[1], blo, m[2])
                  + MatchCount(a, b, m[1] + m[3], ahi, m[2] + m[3], bhi)

\* ratio() = 2.0 * M / T as the pair <<2M, T>>; 1.0 when both are empty
ratio(a, b) ==
    IF Len(a) + Len(b) = 0 THEN <<1, 1>>
    ELSE <<2 * MatchCount(a, b, 1, Len(a) + 1, 1, Len(b) + 1), Len(a) + Len(b)>>

\* r > num/den for a ratio r = <<2M, T>>; the float quotient 2.0*M/T is correctly
\* rounded, so it exceeds the literal num/den exactly when the rational does
RatioGreater(r, num, den) == r[1] * den > num * r[2]

(***************************************************************************)
(* PlayerDataValidator: the normaliser                                     *)
(***************************************************************************)
\* the alternatives of r'\s+(Jr\.?|Sr\.?|III|IV|V)$' under re.IGNORECASE
SuffixWords == { <<"j","r">>, <<"j","r",".">>, <<"s","r">>, <<"s","r",".">>,
                 <<"i","i","i">>, <<"i","v">>, <<"v">> }

SuffixMatchAt(s, i) ==
    /\ IsSpace(s[i])
    /\ \E j \in (i + 1)..Len(s) :
          /\ \A m \in i..(j - 1) : IsSpace(s[m])
          /\ StrLower(Drop(s, j)) \in SuffixWords

\* re.sub(r'\s+(Jr\.?|Sr\.?|III|IV|V)$', '', name, flags=re.IGNORECASE)
StripSuffix(s) ==
    IF \E i \in DOMAIN s : SuffixMatchAt(s, i)
    THEN SubSeq(s, 1, Min({i \in DOMAIN s : SuffixMatchAt(s, i)}) - 1)
    ELSE s

\* self.name_variations, in insertion order
name_variations ==
    << <<"D","J">>, <<"A","J">>, <<"T","J">>, <<"C","J">>, <<"J","J">>,
       <<"R","J">>, <<"B","J">>, <<"M","J">>, <<"P","J">> >>

\* 'DJ' -> 'D.J.'
Dotted(v) == <<v[1], ".", v[2], ".">>

\* re.sub(rf'\b{variant}\b', standard, name), case sensitive
RECURSIVE ReplaceWordFrom(_, _, _)
ReplaceWordFrom(s, i, v) ==
    IF i > Len(s) THEN <<>>
    ELSE IF /\ i + Len(v) - 1 <= Len(s)
            /\ SubSeq(s, i, i + Len(v) - 1) = v
            /\ (i = 1 \/ ~IsWordChar(s[i - 1]))
            /\ (i + Len(v) > Len(s) \/ ~IsWordChar(s[i + Len(v)]))
         THEN Dotted(v) \o ReplaceWordFrom(s, i + Len(v), v)
         ELSE <<s[i]>> \o ReplaceWordFrom(s, i + 1, v)

RECURSIVE ApplyVariations(_, _)
ApplyVariations(s, k) ==
    IF k > Len(name_variations) THEN s
    ELSE ApplyVariations(ReplaceWordFrom(s, 1, name_variations[k]), k + 1)

KeepNameChar(c) == IsAlpha(c) \/ IsSpace(c) \/ c = "." \/ c = "'"

\* re.sub(r"[^a-zA-Z\s\.']+", '', name)
RemoveNonAlpha(s) == SelectSeq(s, KeepNameChar)

clean_player_name(name) ==
    IF name = <<>> THEN <<>>
    ELSE Strip(RemoveNonAlpha(ApplyVariations(StripSuffix(Title(Collapse(name))), 1)))

(***************************************************************************)
(* Python values and dicts                                                 *)
(***************************************************************************)
PyNone == [none |-> TRUE]

PyStr(s) == [str |-> s]

PyInt(n) == [int |-> n]

\* a float with one decimal, held in tenths: PyFloat(125) is 12.5
PyFloat(tenths) == [float |-> tenths]

PyBool(b) == [bool |-> b]

\* type(x): the one field a value has names its type
TypeOf(x) == CHOOSE k \in DOMAIN x : TRUE

\* bool(x)
Truthy(x) ==
    CASE TypeOf(x) = "none" -> FALSE
      [] TypeOf(x) = "str" -> x.str # <<>>
      [] TypeOf(x) = "bool" -> x.bool
      [] TypeOf(x) = "int" -> x.int # 0
      [] TypeOf(x) = "float" -> x.float # 0

\* d.get(k, default)
Get(d, k, default) == IF k \in DOMAIN d THEN d[k] ELSE default

\* d[k] = x
Put(d, k, x) == [f \in DOMAIN d \cup {k} |-> IF f = k THEN x ELSE d[f]]

\* the text of a str value, <<>> for anything that is not a str
Text(x) == IF TypeOf(x) = "str" THEN x.str ELSE <<>>

(***************************************************************************)
(* PlayerDataValidator: teams and positions                                *)
(***************************************************************************)
nfl_teams ==
    { <<"A","R","I">>, <<"A","T","L">>, <<"B","A","L">>, <<"B","U","F">>,
      <<"C","A","R">>, <<"C","H","I">>, <<"C","I","N">>, <<"C","L","E">>,
      <<"D","A","L">>, <<"D","E","N">>, <<"D","E","T">>, <<"G","B">>,
      <<"H","O","U">>, <<"I","N","D">>, <<"J","A","X">>, <<"K","C">>,
      <<"L","V">>, <<"L","A","C">>, <<"L","A","R">>, <<"M","I","A">>,
      <<"M","I","N">>, <<"N","E">>, <<"N","O">>, <<"N","Y","G">>,
      <<"N","Y","J">>, <<"P","H","I">>, <<"P","I","T">>, <<"S","F">>,
      <<"S","E","A">>, <<"T","B">>, <<"T","E","N">>, <<"W","A","S">> }

fantasy_positions ==
    { <<"Q","B">>, <<"R","B">>, <<"W","R">>, <<"T","E">>, <<"K">>,
      <<"D","E","F">>, <<"D","S","T">> }

\* normalize_team had its table of aliases been empty
team_mappings_none(team) == team

\* self.team_mappings.get(team, team)
team_mappings(team) ==
    CASE team = <<"L","A","S">> -> <<"L","V">>
      [] team = <<"L","V","R","D">> -> <<"L","V">>
      [] team = <<"W","S","H">> -> <<"W","A","S">>
      [] team = <<"W","F","T">> -> <<"W","A","S">>
      [] team = <<"J","A","C">> -> <<"J","A","X">>
      [] OTHER -> team

normalize_team(team) ==
    IF team = <<>> THEN <<"F","A">>
    ELSE team_mappings(Strip(StrUpper(team)))

\* position_mappings.get(position, position)
position_mappings(position) ==
    CASE position = <<"D","/","S","T">> -> <<"D","E","F">>
      [] position = <<"D","S","T">> -> <<"D","E","F">>
      [] position = <<"F","L","E","X">> -> <<>>
      [] position = <<"S","U","P","E","R","F","L","E","X">> -> <<>>
      [] position = <<"B","N">> -> <<>>
      [] OTHER -> position

normalize_position(position) ==
    IF position = <<>> THEN <<>>
    ELSE position_mappings(Strip(StrUpper(position)))

(***************************************************************************)
(* NFLRosterValidator: keys and the fuzzy match                            *)
(***************************************************************************)
\* f"{clean_name}_{position.upper()}_{team.upper()}"
_create_player_key(name, position, team) ==
    Collapse(ReplaceChar(ReplaceChar(ReplaceChar(Strip(StrLower(name)),
                 ".", <<>>), "'", <<>>), "-", <<" ">>))
    \o <<"_">> \o StrUpper(position) \o <<"_">> \o StrUpper(team)

RatioAtLeast(r, num, den) == r[1] * den >= num * r[2]

\* the matcher had it been written with "similarity >= 0.85"
_fuzzy_match_player_inclusive(active, name, position, team) ==
    \E player_key \in active :
        /\ Len(SplitOn(player_key, "_")) >= 3
        /\ SplitOn(player_key, "_")[2] = StrUpper(position)
        /\ SplitOn(player_key, "_")[3] = StrUpper(team)
        /\ RatioAtLeast(ratio(Collapse(ReplaceChar(ReplaceChar(ReplaceChar(
                StrLower(name), ".", <<>>), "'", <<>>), "-", <<" ">>)),
                SplitOn(player_key, "_")[1]), 85, 100)

\* similarity > 0.85 against the keys of the same position and team
_fuzzy_match_player(active, name, position, team) ==
    LET clean_name == Collapse(ReplaceChar(ReplaceChar(ReplaceChar(StrLower(name),
                          ".", <<>>), "'", <<>>), "-", <<" ">>))
    IN  \E player_key \in active :
           LET key_parts == SplitOn(player_key, "_")
           IN  /\ Len(key_parts) >= 3
               /\ key_parts[2] = StrUpper(position)
               /\ key_parts[3] = StrUpper(team)
               /\ RatioGreater(ratio(clean_name, key_parts[1]), 85, 100)

\* validate_player after the roster is loaded: the three fields are present,
\* the team is a team, and the key is in self.active_players or close to one
RosterVerdict(active, player) ==
    LET name == Get(player, "name", PyStr(<<>>))
        position == Get(player, "position", PyStr(<<>>))
        team == Get(player, "team", PyStr(<<>>))
    IN  /\ Truthy(name) /\ Truthy(position) /\ Truthy(team)
        /\ Text(team) \notin { <<"F","A">>, <<"N","o","n","e">> }
        /\ \/ _create_player_key(Text(name), Text(position), Text(team)) \in active
           \/ _fuzzy_match_player(active, Text(name), Text(position), Text(team))

(***************************************************************************)
(* NFLRosterValidator: the roster sources                                  *)
(***************************************************************************)
\* self.nfl_team_depth_positions.keys()
nfl_team_depth_positions ==
    { <<"Q","B">>, <<"R","B">>, <<"W","R">>, <<"T","E">>, <<"K">>, <<"D","E","F">> }

_is_likely_rostered(player_info) ==
    /\ player_info.team # <<>>
    /\ player_info.position \in nfl_team_depth_positions
    /\ (player_info.years_exp = 0 => player_info.has_stats)

\* the entries of the Sleeper catalogue that _parse_sleeper_data keeps
SleeperKept(data) ==
    { e \in data :
        /\ StrUpper(e.status) \notin { <<"R","E","T","I","R","E","D">>,
                                       <<"S","U","S","P","E","N","D","E","D">>,
                                       <<"I","N","A","C","T","I","V","E">> }
        /\ e.team # <<>> /\ e.position # <<>> /\ e.full_name # <<>>
        /\ StrUpper(e.team) \notin { <<"N","O","N","E">>, <<"N","U","L","L">> }
        /\ _is_likely_rostered(e) }

_parse_sleeper_data(data) ==
    { _create_player_key(e.full_name, e.position, e.team) : e \in SleeperKept(data) }

\* the backup format: entries seen in the last two seasons with all three fields
_parse_nfldata_format(data) ==
    { _create_player_key(e.full_name, e.position, e.team) :
        e \in { x \in data : x.recent /\ x.full_name # <<>>
                             /\ x.position # <<>> /\ x.team # <<>> } }

\* _fetch_from_source: None on any error, else what the source's parser returns.
\* A reply is [ok |-> FALSE] or [ok |-> TRUE, data |-> catalogue]; source 1 is
\* Sleeper, source 2 the nflverse backup.
_fetch_from_source(k, reply) ==
    IF ~reply.ok THEN [some |-> FALSE, players |-> {}]
    ELSE [some |-> TRUE,
          players |-> IF k = 1 THEN _parse_sleeper_data(reply.data)
                      ELSE _parse_nfldata_format(reply.data)]

(***************************************************************************)
(* PlayerDataValidator.validate_player_data, up to the roster check        *)
(***************************************************************************)
\* validate_player_data had it left the team to the roster check
NormalisePlayer_anyteam(player) ==
    IF ~(\A f \in {"name", "position", "team"} :
            f \in DOMAIN player /\ Truthy(player[f]))
    THEN [ok |-> FALSE, player |-> player]
    ELSE
    LET clean_name == clean_player_name(Text(player.name))
        position == normalize_position(Text(player.position))
        team == normalize_team(Text(player.team))
    IN  IF Len(clean_name) < 2 \/ position \notin fantasy_positions
        THEN [ok |-> FALSE, player |-> player]
        ELSE [ok |-> TRUE,
              player |-> Put(Put(Put(player, "name", PyStr(clean_name)),
                             "position", PyStr(position)), "team", PyStr(team))]

\* [ok, player]: whether name, position and team pass, and the player dict as
\* the call leaves it (normalised in place once all three pass)
NormalisePlayer(player) ==
    IF ~(\A f \in {"name", "position", "team"} :
            f \in DOMAIN player /\ Truthy(player[f]))
    THEN [ok |-> FALSE, player |-> player]
    ELSE
    LET clean_name == clean_player_name(Text(player.name))
        position == normalize_position(Text(player.position))
        team == normalize_team(Text(player.team))
    IN  IF Len(clean_name) < 2 \/ position \notin fantasy_positions
           \/ team \notin nfl_teams
        THEN [ok |-> FALSE, player |-> player]
        ELSE [ok |-> TRUE,
              player |-> Put(Put(Put(player, "name", PyStr(clean_name)),
                             "position", PyStr(position)), "team", PyStr(team))]

(***************************************************************************)
(* The inputs: roster catalogues and player records                        *)
(***************************************************************************)
Entry(name, position, team, status, years_exp, has_stats, recent) ==
    [full_name |-> name, position |-> position, team |-> team, status |-> status,
     years_exp |-> years_exp, has_stats |-> has_stats, recent |-> recent]

Active == <<"A","c","t","i","v","e">>

JoshAllen == <<"J","o","s","h"," ","A","l","l","e","n">>

ZayFlowers == <<"Z","a","y"," ","F","l","o","w","e","r","s">>

EqStBrown == <<"E","q","u","a","n","i","m","e","o","u","s"," ",
               "S","t","."," ","B","r","o","w","n">>

AJBrown == <<"A",".","J","."," ","B","r","o","w","n">>

AmonRa == <<"A","m","o","n","-","R","a"," ","S","t","."," ","B","r","o","w","n">>

QB == <<"Q","B">>

WR == <<"W","R">>

RB == <<"R","B">>

BUF == <<"B","U","F">>

BAL == <<"B","A","L">>

CHI == <<"C","H","I">>

PHI == <<"P","H","I">>

DET == <<"D","E","T">>

\* two catalogues a roster source may serve; each holds a retired player or a
\* rookie without statistics that the Sleeper parser leaves out
CatalogueA ==
    { Entry(JoshAllen, QB, BUF, Active, 6, FALSE, TRUE),
      Entry(EqStBrown, WR, CHI, Active, 5, FALSE, TRUE),
      Entry(ZayFlowers, WR, BAL, Active, 0, TRUE, TRUE),
      Entry(<<"T","o","m"," ","B","r","a","d","y">>, QB, <<"T","B">>,
            <<"R","e","t","i","r","e","d">>, 23, FALSE, FALSE) }

CatalogueB ==
    { Entry(JoshAllen, QB, BUF, Active, 6, FALSE, TRUE),
      Entry(AJBrown, WR, PHI, Active, 5, FALSE, TRUE),
      Entry(AmonRa, WR, DET, Active, 3, FALSE, TRUE),
      Entry(<<"J","o","e"," ","R","o","o","k">>, RB, BUF, Active, 0, FALSE, TRUE) }

Failed == [ok |-> FALSE, data |-> {}]

Served(data) == [ok |-> TRUE, data |-> data]

SourceReplies == {Failed, Served({}), Served(CatalogueA), Served(CatalogueB)}

\* what the two roster sources may answer to one call
Replies ==
    { <<r1, r2>> : r1 \in SourceReplies, r2 \in {Failed, Served(CatalogueB)} }

Player(name, position, team) ==
    [name |-> PyStr(name), position |-> PyStr(position), team |-> PyStr(team)]

\* the records handed to the validators
TestPlayers ==
    { Player(JoshAllen, QB, BUF),
      Player(<<"j","o","s","h"," ","a","l","l","e","n">>, <<"q","b">>, <<"b","u","f">>),
      Player(<<"J","o","s","h"," ","A","l","a","n">>, QB, BUF),
      Player(<<"Z","a","y"," ","F","l","a","w","r","s">>, WR, BAL),
      Player(<<"E","q","u","a","n","e","m","e","o","u","s"," ",
               "S","t","."," ","B","r","a","u","n">>, WR, CHI),
      Player(JoshAllen, QB, <<"X","X">>),
      Player(JoshAllen, QB, <<"F","A">>),
      Player(AmonRa, WR, DET),
      Player(JoshAllen, <<"F","L","E","X">>, BUF),
      Player(JoshAllen, <<"P">>, BUF),
      [name |-> PyStr(JoshAllen), position |-> PyStr(QB), team |-> PyNone],
      [name |-> PyStr(JoshAllen), team |-> PyStr(BUF)] }

Inactive == <<"I","n","a","c","t","i","v","e">>

\* the records of a stored database handed to the cleaner: two spellings of one
\* receiver, a hyphenated name, one quarterback three times over with ranks of
\* different types, a player marked inactive and one flagged not active
DatabasePlayers ==
    { Put(Player(AJBrown, WR, PHI), "rank", PyStr(<<"1","5">>)),
      Put(Player(<<"A","J"," ","B","r","o","w","n">>, WR, PHI), "adp", PyFloat(125)),
      Put(Player(AmonRa, WR, DET), "adp", PyFloat(81)),
      Put(Player(JoshAllen, QB, BUF), "rank", PyStr(<<"1">>)),
      Put(Player(<<"j","o","s","h"," "," ","a","l","l","e","n"," ","j","r",".">>,
                 <<"q","b">>, <<"b","u","f">>), "rank", PyInt(5)),
      Put(Player(<<"J","o","s","h"," ","A","l","l","e","n","n">>, QB, BUF),
          "projected_points", PyFloat(3128)),
      Put(Player(ZayFlowers, WR, BAL), "status", PyStr(Inactive)),
      Put(Player(<<"J","o","e"," ","R","o","o","k">>, RB, BUF), "active", PyBool(FALSE)) }

\* calls of the cleaner on one list
MaxRuns == 2

(***************************************************************************)
(* Tabulation.  TLC evaluates a constant definition once, so the string    *)
(* work of the operators above is done once per input and looked up after. *)
(***************************************************************************)
FetchTable == [k \in {1, 2}, reply \in SourceReplies |-> _fetch_from_source(k, reply)]

Fetch(k, reply) == FetchTable[k, reply]

\* the records as validate_player_data leaves them
Cleaned(S) == { NormalisePlayer(player).player : player \in S }

\* the records after up to n calls of validate_player_data on each
RECURSIVE CleanedUpTo(_, _)
CleanedUpTo(S, n) == IF n = 0 THEN S ELSE CleanedUpTo(S \cup Cleaned(S), n - 1)

NormaliseTable ==
    [player \in CleanedUpTo(TestPlayers \cup DatabasePlayers, MaxRuns - 1) |->
        NormalisePlayer(player)]

\* a record outside the table (a merged one) is worked out when it is met
Normalise(player) ==
    IF player \in DOMAIN NormaliseTable THEN NormaliseTable[player]
    ELSE NormalisePlayer(player)

\* every value self.active_players can take, and every record validate_player gets
ActiveSets == {{}} \cup { FetchTable[x].players : x \in DOMAIN FetchTable }

ValidatedPlayers ==
    TestPlayers \cup { NormaliseTable[p].player : p \in DOMAIN NormaliseTable }

VerdictTable ==
    [active \in ActiveSets, player \in ValidatedPlayers |-> RosterVerdict(active, player)]

Verdict(active, player) ==
    IF <<active, player>> \in DOMAIN VerdictTable THEN VerdictTable[active, player]
    ELSE RosterVerdict(active, player)

(***************************************************************************)
(* NFLRosterValidator: the cache file and the two entry points             *)
(***************************************************************************)
\* hours of one tick of the model clock
HoursPerTick == 12

\* self.cache_duration = timedelta(hours=24)
RosterCacheHours == 24

NoRosterFile == [exists |-> FALSE, active_players |-> {}, timestamp |-> 0]

\* _load_cached_roster had it kept a file of exactly cache_duration
_load_cached_roster_inclusive(file, t) ==
    IF file.exists /\ (t - file.timestamp) * HoursPerTick <= RosterCacheHours
    THEN [some |-> TRUE, players |-> file.active_players]
    ELSE [some |-> FALSE, players |-> {}]

\* the cached set when the file exists and is younger than cache_duration
_load_cached_roster(file, t) ==
    IF file.exists /\ (t - file.timestamp) * HoursPerTick < RosterCacheHours
    THEN [some |-> TRUE, players |-> file.active_players]
    ELSE [some |-> FALSE, players |-> {}]

_cache_roster_data(players, t) ==
    [exists |-> TRUE, active_players |-> players, timestamp |-> t]

\* the loop over self.data_sources: the first source with players wins
FetchLoop(first, second) ==
    IF first # {} THEN [players |-> first, net |-> 1]
    ELSE [players |-> second, net |-> 2]

FetchAll(replies) ==
    FetchLoop(Fetch(1, replies[1]).players, Fetch(2, replies[2]).players)

\* get_active_nfl_players had it served the expired file when every source fails
ActiveFrom_stale(active, file, t, cached, fetched) ==
    IF cached # {}
    THEN [ret |-> cached, active_players |-> active, file |-> file, net |-> 0]
    ELSE IF fetched.players # {}
    THEN [ret |-> fetched.players, active_players |-> fetched.players,
          file |-> _cache_roster_data(fetched.players, t), net |-> fetched.net]
    ELSE [ret |-> file.active_players, active_players |-> file.active_players,
          file |-> file, net |-> 2]

\* get_active_nfl_players once the cache is read and the sources have answered
ActiveFrom(active, file, t, cached, fetched) ==
    IF cached # {}
    THEN [ret |-> cached, active_players |-> active, file |-> file, net |-> 0]
    ELSE IF fetched.players # {}
    THEN [ret |-> fetched.players, active_players |-> fetched.players,
          file |-> _cache_roster_data(fetched.players, t), net |-> fetched.net]
    ELSE [ret |-> {}, active_players |-> active, file |-> file, net |-> 2]

\* get_active_nfl_players: the value returned, self.active_players and the cache
\* file afterwards, and the number of requests sent
get_active_nfl_players(active, file, t, replies) ==
    ActiveFrom(active, file, t, _load_cached_roster(file, t).players, FetchAll(replies))

\* validate_player after its call of get_active_nfl_players, if it made one
VerdictWith(called, got, player) ==
    [result |-> Verdict(got.active_players, player),
     called |-> called,
     ret |-> got.ret,
     active_players |-> got.active_players,
     file |-> got.file,
     net |-> got.net]

\* validate_player: the verdict, with the state get_active_nfl_players leaves
validate_player(active, file, t, replies, player) ==
    VerdictWith(active = {},
                IF active = {} THEN get_active_nfl_players(active, file, t, replies)
                ELSE [ret |-> {}, active_players |-> active, file |-> file, net |-> 0],
                player)

\* validate_player_data: the verdict, the player dict as the call leaves it, and
\* the roster validator's state
validate_player_data(active, file, t, replies, player) ==
    IF ~Normalise(player).ok
    THEN [result |-> FALSE, player |-> player, consulted |-> FALSE,
          called |-> FALSE, ret |-> {},
          active_players |-> active, file |-> file, net |-> 0]
    ELSE [player |-> Normalise(player).player, consulted |-> TRUE] @@
         validate_player(active, file, t, replies, Normalise(player).player)

(***************************************************************************)
(* ADPDataSource: the cached ADP fetch                                     *)
(***************************************************************************)
\* self.cache_duration = timedelta(hours=6)
AdpCacheHours == 6

FantasyFootballCalculator ==
    <<"f","a","n","t","a","s","y","f","o","o","t","b","a","l","l",
      "c","a","l","c","u","l","a","t","o","r">>

\* float(adp) if adp else None, for the numbers a reply carries
AdpValue(adp) ==
    IF ~Truthy(adp) THEN PyNone
    ELSE IF TypeOf(adp) = "int" THEN PyFloat(10 * adp.int)
    ELSE adp

\* the processed player once the four fields are read
FfcPlayer(name, position, team, adp, format_type) ==
    IF ~Truthy(name) \/ ~Truthy(position) THEN PyNone
    ELSE [name |-> PyStr(Strip(Text(name))),
          position |-> PyStr(StrUpper(Text(position))),
          team |-> PyStr(IF Truthy(team) THEN StrUpper(Text(team)) ELSE <<>>),
          adp |-> AdpValue(adp),
          format |-> PyStr(format_type),
          source |-> PyStr(FantasyFootballCalculator)]

\* _process_ffc_player: None for an entry without a name or a position
_process_ffc_player(player_data, format_type) ==
    FfcPlayer(Get(player_data, "name", Get(player_data, "player_name", PyStr(<<>>))),
              Get(player_data, "position", Get(player_data, "pos", PyStr(<<>>))),
              Get(player_data, "team", Get(player_data, "team_abbr", PyStr(<<>>))),
              Get(player_data, "adp", Get(player_data, "avg_pick", PyInt(0))),
              format_type)

\* _process_ffc_data: the entries that process to a player, in order.  The
\* reply body is {'players': [...]}, a dict of entries, or a bare list, on
\* which raw_data.get raises.
_process_ffc_data(raw_data, format_type) ==
    IF raw_data.form = "list" THEN [ok |-> FALSE, data |-> <<>>]
    ELSE [ok |-> TRUE,
          data |-> SelectSeq([i \in 1..Len(raw_data.items) |->
                                 _process_ffc_player(raw_data.items[i], format_type)],
                             LAMBDA p : p # PyNone)]

\* the answers of fantasyfootballcalculator.com to one request
RawPlayers ==
    << [name |-> PyStr(<<" ","J","o","s","h"," ","A","l","l","e","n"," ">>),
        position |-> PyStr(<<"q","b">>), team |-> PyStr(<<"b","u","f">>),
        adp |-> PyFloat(215)],
       [player_name |-> PyStr(ZayFlowers), pos |-> PyStr(WR), avg_pick |-> PyInt(40)],
       [name |-> PyStr(<<>>), position |-> PyStr(QB), adp |-> PyFloat(10)] >>

RawDict ==
    << [name |-> PyStr(AJBrown), position |-> PyStr(WR), team_abbr |-> PyStr(PHI)] >>

RawNameless == << [position |-> PyStr(QB), team |-> PyStr(BUF)] >>

AdpReplies ==
    { [kind |-> "RequestException"],
      [kind |-> "JSONDecodeError"],
      [kind |-> "ok", form |-> "players", items |-> RawPlayers],
      [kind |-> "ok", form |-> "dict", items |-> RawDict],
      [kind |-> "ok", form |-> "players", items |-> RawNameless],
      [kind |-> "ok", form |-> "list", items |-> RawPlayers] }

Ppr == <<"p","p","r">>

Standard == <<"s","t","a","n","d","a","r","d">>

\* the (format_type, teams, year) of a request; the cache key joins them with "_"
AdpRequests == { <<Ppr, 12, 2025>>, <<Standard, 12, 2025>> }

ProcessTable ==
    [reply \in { r \in AdpReplies : r.kind = "ok" }, format_type \in {Ppr, Standard} |->
        _process_ffc_data(reply, format_type)]

\* requests.get and _process_ffc_data: how the try block ends, and the
\* processed list when it ends well
FetchAdp(reply, format_type) ==
    IF reply.kind # "ok" THEN [end |-> reply.kind, data |-> <<>>]
    ELSE IF ~ProcessTable[reply, format_type].ok
    THEN [end |-> "Exception", data |-> <<>>]
    ELSE [end |-> "return", data |-> ProcessTable[reply, format_type].data]

NoAdpFile == [exists |-> FALSE, cache |-> <<>>]

\* _get_cached_data: the entry's data while the entry is younger than
\* cache_duration, None otherwise
_get_cached_data(file, key, t) ==
    IF /\ file.exists
       /\ key \in DOMAIN file.cache
       /\ (t - file.cache[key].timestamp) * HoursPerTick < AdpCacheHours
    THEN [some |-> TRUE, data |-> file.cache[key].data]
    ELSE [some |-> FALSE, data |-> <<>>]

\* _cache_data: the file with the key's entry set and every other entry kept
_cache_data(file, data, key, t) ==
    [exists |-> TRUE,
     cache |-> Put(file.cache, key, [data |-> data, timestamp |-> t])]

\* _get_backup_adp_data: no backup source is implemented
_get_backup_adp_data == PyNone

\* get_adp_data had the backup been the expired entry of the cache file
AdpFrom_stale(file, key, t, cached, fetched) ==
    IF cached.some /\ cached.data # <<>>
    THEN [ret |-> [list |-> cached.data], file |-> file, net |-> 0]
    ELSE IF fetched.end = "return"
    THEN [ret |-> [list |-> fetched.data],
          file |-> _cache_data(file, fetched.data, key, t), net |-> 1]
    ELSE IF fetched.end = "RequestException" /\ key \in DOMAIN file.cache
    THEN [ret |-> [list |-> file.cache[key].data], file |-> file, net |-> 1]
    ELSE [ret |-> PyNone, file |-> file, net |-> 1]

\* get_adp_data once the cache is read and the request has ended
AdpFrom(file, key, t, cached, fetched) ==
    IF cached.some /\ cached.data # <<>>
    THEN [ret |-> [list |-> cached.data], file |-> file, net |-> 0]
    ELSE IF fetched.end = "return"
    THEN [ret |-> [list |-> fetched.data],
          file |-> _cache_data(file, fetched.data, key, t), net |-> 1]
    ELSE IF fetched.end = "RequestException"
    THEN [ret |-> _get_backup_adp_data, file |-> file, net |-> 1]
    ELSE [ret |-> PyNone, file |-> file, net |-> 1]

\* get_adp_data: the value returned, adp_cache.json afterwards and the number
\* of requests sent
get_adp_data(file, key, t, reply) ==
    AdpFrom(file, key, t, _get_cached_data(file, key, t), FetchAdp(reply, key[1]))

(***************************************************************************)
(* PlayerDataValidator._merge_player_data                                  *)
(***************************************************************************)
RECURSIVE NumDigits(_)
NumDigits(n) == IF n < 10 THEN 1 ELSE 1 + NumDigits(n \div 10)

Abs(n) == IF n < 0 THEN -n ELSE n

\* len(str(x)): "12" for the int 12, "12.5" for the float 12.5, "True"
StrLen(x) ==
    CASE TypeOf(x) = "str" -> Len(x.str)
      [] TypeOf(x) = "int" -> NumDigits(Abs(x.int)) + (IF x.int < 0 THEN 1 ELSE 0)
      [] TypeOf(x) = "float" ->
            NumDigits(Abs(x.float) \div 10) + 2 + (IF x.float < 0 THEN 1 ELSE 0)
      [] TypeOf(x) = "bool" -> IF x.bool THEN 4 ELSE 5
      [] TypeOf(x) = "none" -> 4

\* isinstance(x, (int, float)); a bool is an int
IsNumber(x) == TypeOf(x) \in {"int", "float", "bool"}

\* the number in tenths, for comparing ints, floats and bools
Tenths(x) ==
    CASE TypeOf(x) = "int" -> 10 * x.int
      [] TypeOf(x) = "float" -> x.float
      [] TypeOf(x) = "bool" -> IF x.bool THEN 10 ELSE 0

\* what the loop body does with one item of player2: "set" merged[key] to the
\* value, "keep" merged as it is, or raise "TypeError" on value > merged[key]
MergeItem(merged, key, value) ==
    IF value = PyNone \/ value = PyStr(<<>>) THEN "keep"
    ELSE IF key \notin DOMAIN merged \/ ~Truthy(merged[key]) THEN "set"
    ELSE IF TypeOf(value) = "str"
    THEN (IF Len(value.str) > StrLen(merged[key]) THEN "set" ELSE "keep")
    ELSE IF ~IsNumber(value) THEN "keep"
    ELSE IF ~IsNumber(merged[key]) THEN "TypeError"
    ELSE IF Tenths(value) > Tenths(merged[key]) THEN "set"
    ELSE "keep"

\* _merge_player_data: whether it raised, and the merged copy of player1 when
\* it did not.  Each key of player2 is looked at once and touches only its own
\* entry of merged, so the items are independent of the order of the loop.
_merge_player_data(player1, player2) ==
    IF \E key \in DOMAIN player2 : MergeItem(player1, key, player2[key]) = "TypeError"
    THEN [raised |-> TRUE, merged |-> player1]
    ELSE [raised |-> FALSE,
          merged |-> [key \in DOMAIN player1 \cup
                               { k \in DOMAIN player2 :
                                   MergeItem(player1, k, player2[k]) = "set" } |->
                         IF key \in DOMAIN player2
                            /\ MergeItem(player1, key, player2[key]) = "set"
                         THEN player2[key] ELSE player1[key]]]

(***************************************************************************)
(* PlayerDataValidator: duplicate detection and the database cleaner       *)
(***************************************************************************)
\* f"{clean_name}_{player['position']}_{player['team']}"
SeenKey(player) ==
    Text(player.name) \o <<"_">> \o Text(player.position) \o <<"_">> \o Text(player.team)

\* the least member of a set of positions, 0 when there is none
First(S) == IF S = {} THEN 0 ELSE Min(S)

\* where seen_players holds the key, 0 when it does not
ExactAt(seen, key) == First({ i \in 1..Len(seen) : seen[i].key = key })

\* the first entry of seen_players of the player's position and team whose name
\* is more than 90% similar to the player's
SimilarAt(seen, player) ==
    First({ i \in 1..Len(seen) :
              /\ player.position = seen[i].player.position
              /\ player.team = seen[i].player.team
              /\ RatioGreater(ratio(Text(player.name), Text(seen[i].player.name)),
                              9, 10) })

\* seen_players[key] = self._merge_player_data(...), unless the merge raises
MergeAt(seen, i, m) ==
    [raised |-> m.raised,
     seen |-> IF m.raised THEN seen ELSE [seen EXCEPT ![i].player = m.merged]]

\* the body of the loop of detect_duplicates for a player that passed validation
Remember(seen, player, exact, similar) ==
    IF exact # 0
    THEN MergeAt(seen, exact, _merge_player_data(seen[exact].player, player))
    ELSE IF similar # 0
    THEN MergeAt(seen, similar, _merge_player_data(seen[similar].player, player))
    ELSE [raised |-> FALSE,
          seen |-> Append(seen, [key |-> SeenKey(player), player |-> player])]

\* the loop state once validate_player_data has answered v for players[i]: the
\* dict in the caller's list carries the cleaned fields from then on
Validated(acc, i, v) ==
    [acc EXCEPT !.players[i] = v.player,
                !.active_players = v.active_players,
                !.file = v.file]

Remembered(acc, r) == [acc EXCEPT !.seen = r.seen, !.raised = r.raised]

DedupStep(acc, i, v) ==
    IF ~v.result THEN Validated(acc, i, v)
    ELSE Remembered(Validated(acc, i, v),
                    Remember(acc.seen, v.player,
                             ExactAt(acc.seen, SeenKey(v.player)),
                             SimilarAt(acc.seen, v.player)))

RECURSIVE DedupFrom(_, _, _, _)
DedupFrom(acc, i, t, replies) ==
    IF i > Len(acc.players) \/ acc.raised THEN acc
    ELSE DedupFrom(DedupStep(acc, i,
                             validate_player_data(acc.active_players, acc.file, t,
                                                  replies, acc.players[i])),
                   i + 1, t, replies)

Values(seen) == [j \in 1..Len(seen) |-> seen[j].player]

Returned(acc) ==
    [raised |-> acc.raised,
     ret |-> IF acc.raised THEN <<>> ELSE Values(acc.seen),
     players |-> acc.players,
     active_players |-> acc.active_players,
     file |-> acc.file]

\* detect_duplicates: whether it raised, the list returned, the caller's list as
\* the call leaves it, and the roster validator's state
detect_duplicates(list, active, file, t, replies) ==
    Returned(DedupFrom([players |-> list, seen |-> <<>>, raised |-> FALSE,
                        active_players |-> active, file |-> file],
                       1, t, replies))

StatFields == {"projected_points", "fantasy_points", "adp", "rank"}

_is_fantasy_relevant(player) ==
    IF \E f \in {"name", "position", "team"} : ~Truthy(Get(player, f, PyNone))
    THEN FALSE
    ELSE IF StrUpper(Text(Get(player, "status", PyStr(<<>>))))
              \in { <<"R","E","T","I","R","E","D">>,
                    <<"S","U","S","P","E","N","D","E","D">>,
                    <<"I","N","A","C","T","I","V","E">> }
    THEN FALSE
    ELSE IF Text(player.position) \in { <<"Q","B">>, <<"R","B">>, <<"W","R">>, <<"T","E">> }
    THEN (StatFields \cap DOMAIN player # {})
         \/ Truthy(Get(player, "active", PyBool(TRUE)))
    ELSE TRUE

Relevant(d) == [d EXCEPT !.ret = SelectSeq(d.ret, _is_fantasy_relevant)]

\* clean_database_players: detect_duplicates, then the relevance filter
clean_database_players(list, active, file, t, replies) ==
    Relevant(detect_duplicates(list, active, file, t, replies))

(***************************************************************************)
(* The state of the program: the clock, the cache files, the validator      *)
(***************************************************************************)
VARIABLES
    now,             \* the clock, in ticks of HoursPerTick hours
    roster_file,     \* nfl_roster_cache.json
    active_players,  \* self.active_players of the live NFLRosterValidator
    adp_cache,       \* adp_cache.json
    store,           \* the players collection, or self.data of the LocalDataStore
    mongodb_available, \* whether the import of mongo_utils reached MongoDB
    all_players,     \* the list of player dicts a script hands to the cleaner
    runs,            \* the cleaner's calls on that list so far, oldest first
    sheet_players,   \* self.players of the PDFPlayerSheet
    json_file,       \* the JSON file at the path the sheet is saved to
    saved_players,   \* self.players as it was at the last save
    marked,          \* the sheet as parsed or loaded, the names marked since
    pdf_players,     \* the player dicts the parser reads from the PDF at pdf_path
    local_file,      \* local_players.json as the last _save_data left it
    players_cache,   \* search_engine.players_cache of the web application
    last             \* the last call: its arguments, its result, what it saw

sheetVars == <<sheet_players, json_file, saved_players, marked>>

storeVars == <<store, local_file, players_cache>>

vars == <<now, roster_file, active_players, adp_cache, storeVars, mongodb_available,
          all_players, runs, sheetVars, pdf_players, last>>

\* what the calls of the roster validator leave alone
notRoster == <<adp_cache, storeVars, mongodb_available, all_players, runs, sheetVars,
               pdf_players>>

\* what the calls of the ADP source leave alone
notAdp == <<roster_file, active_players, storeVars, mongodb_available, all_players,
            runs, sheetVars, pdf_players>>

\* what the calls of the record store leave alone
notStore == <<now, roster_file, active_players, adp_cache, mongodb_available,
              all_players, runs, sheetVars, pdf_players>>

\* what the calls of the player sheet leave alone
notSheet == <<now, roster_file, active_players, adp_cache, storeVars,
              mongodb_available, all_players, runs, pdf_players>>

(***************************************************************************)
(* The roster validator as a state machine                                 *)
(***************************************************************************)
\* ticks the clock may reach
MaxTime == 2

Idle == [op |-> "none"]

NoJsonFile == [exists |-> FALSE, objects |-> <<>>]

\* the sheet as it was parsed or loaded, before any name is marked
Fresh(players) == [original |-> players, names |-> {}]

\* no cache file written yet, a validator just constructed, an empty store,
\* a sheet just constructed and never saved
InitFiles ==
    /\ now = 0
    /\ roster_file = NoRosterFile
    /\ active_players = {}
    /\ adp_cache = NoAdpFile
    /\ store = <<>>
    /\ sheet_players = <<>>
    /\ json_file = NoJsonFile
    /\ saved_players = <<>>
    /\ marked = Fresh(<<>>)
    /\ pdf_players = <<>>
    /\ local_file = <<>>
    /\ players_cache = <<>>

\* no list handed to the cleaner, no call made yet
InitQuiet ==
    /\ all_players = <<>>
    /\ runs = <<>>
    /\ last = Idle

\* the start with MongoDB unreachable, on the local JSON fallback
Init == InitFiles /\ InitQuiet /\ mongodb_available = FALSE

\* time passes
Tick ==
    /\ now < MaxTime
    /\ now' = now + 1
    /\ UNCHANGED <<roster_file, active_players, adp_cache, last, storeVars,
                   mongodb_available, all_players, runs, sheetVars, pdf_players>>

\* NFLRosterValidator(): a new instance, as every script and every
\* PlayerDataValidator() makes one; the cache file stays on disk
NewValidator ==
    /\ active_players' = {}
    /\ last' = [op |-> "__init__"]
    /\ UNCHANGED <<now, roster_file, notRoster>>

\* whether the replies give a fetch no players at all
NoPlayersFrom(replies) == FetchAll(replies).players = {}

GetActiveNflPlayers ==
    \E replies \in Replies :
        \E r \in {get_active_nfl_players(active_players, roster_file, now, replies)} :
            /\ active_players' = r.active_players
            /\ roster_file' = r.file
            /\ last' = [op |-> "get_active_nfl_players", ret |-> r.ret,
                        net |-> r.net, at |-> now, file_before |-> roster_file,
                        active_before |-> active_players,
                        no_players |-> NoPlayersFrom(replies)]
            /\ UNCHANGED <<now, notRoster>>

ValidatePlayer ==
    \E replies \in Replies, player \in TestPlayers :
        \E r \in {validate_player(active_players, roster_file, now, replies, player)} :
            /\ active_players' = r.active_players
            /\ roster_file' = r.file
            /\ last' = [op |-> "validate_player", player |-> player,
                        result |-> r.result, called |-> r.called, ret |-> r.ret,
                        net |-> r.net, at |-> now, file_before |-> roster_file,
                        active_before |-> active_players,
                        no_players |-> NoPlayersFrom(replies)]
            /\ UNCHANGED <<now, notRoster>>

ValidatePlayerData ==
    \E replies \in Replies, player \in TestPlayers :
        \E r \in {validate_player_data(active_players, roster_file, now, replies, player)} :
            /\ active_players' = r.active_players
            /\ roster_file' = r.file
            /\ last' = [op |-> "validate_player_data", player |-> r.player,
                        given |-> player, consulted |-> r.consulted,
                        result |-> r.result, called |-> r.called, ret |-> r.ret,
                        net |-> r.net, at |-> now, file_before |-> roster_file,
                        active_before |-> active_players,
                        no_players |-> NoPlayersFrom(replies)]
            /\ UNCHANGED <<now, notRoster>>

NextRoster ==
    \/ Tick
    \/ NewValidator
    \/ GetActiveNflPlayers
    \/ ValidatePlayer
    \/ ValidatePlayerData

SpecRoster == Init /\ [][NextRoster]_vars

(***************************************************************************)
(* Properties of the roster validator                                      *)
(***************************************************************************)
Field(player, k) == Text(Get(player, k, PyStr(<<>>)))

\* the identity key of a record: normalised name, position and team
IdentityKeys ==
    [player \in ValidatedPlayers |->
        _create_player_key(Field(player, "name"), Field(player, "position"),
                           Field(player, "team"))]

\* the record names a team of the league and a fantasy position
ValidTeamAndPosition ==
    [player \in ValidatedPlayers |->
        /\ StrUpper(Field(player, "team")) \in nfl_teams
        /\ StrUpper(Field(player, "position")) \in fantasy_positions]

\* the similarity of a record's normalised name to the name of a roster key
\* of the record's position and team; <<0, 1>> for a key of another slot
Similarity(player, key) ==
    IF /\ Len(SplitOn(key, "_")) = 3
       /\ SplitOn(key, "_")[2] = StrUpper(Field(player, "position"))
       /\ SplitOn(key, "_")[3] = StrUpper(Field(player, "team"))
    THEN ratio(SplitOn(IdentityKeys[player], "_")[1], SplitOn(key, "_")[1])
    ELSE <<0, 1>>

SimilarAbove ==
    [active \in ActiveSets, player \in ValidatedPlayers |->
        \E key \in active : RatioGreater(Similarity(player, key), 85, 100)]

SimilarAtLeast ==
    [active \in ActiveSets, player \in ValidatedPlayers |->
        \E key \in active : RatioAtLeast(Similarity(player, key), 85, 100)]

\* the roster a call of validate_player works with: the one the instance
\* held, else the one get_active_nfl_players returned to it
RosterInUse ==
    IF last.active_before # {} THEN last.active_before ELSE last.ret

\* C1: a record with a valid team and position whose identity key is in the
\* active roster set is accepted by validate_player, whether that set was
\* fetched fresh or loaded from a still-valid disk cache.
C1_ExactKeyAccepted ==
    (/\ last.op = "validate_player"
     /\ ValidTeamAndPosition[last.player]
     /\ IdentityKeys[last.player] \in RosterInUse)
    => last.result

\* C4: with no unexpired roster cache and every roster source failing or
\* serving no players, validate_player returns False for every record and
\* validate_player_data rejects every record.
C4_FailClosed ==
    (/\ last.op \in {"validate_player", "validate_player_data"}
     /\ last.active_before = {}
     /\ ~_load_cached_roster(last.file_before, last.at).some
     /\ last.no_players)
    => ~last.result

\* the six positions of the fantasy game
SixPositions ==
    { <<"Q","B">>, <<"R","B">>, <<"W","R">>, <<"T","E">>, <<"K">>, <<"D","E","F">> }

\* the record's team or position, once normalised, is not a valid code
OutsideLeague ==
    [player \in TestPlayers |->
        \/ normalize_team(Field(player, "team")) \notin nfl_teams
        \/ normalize_position(Field(player, "position")) \notin SixPositions]

\* C11: validate_player_data rejects every record whose normalised team is
\* not one of the 32 team codes or whose normalised position is not one of
\* QB, RB, WR, TE, K, DEF, whatever the active roster holds, and without
\* looking the record up in it or fetching it.
C11_InvalidTeamOrPositionRejected ==
    (last.op = "validate_player_data" /\ OutsideLeague[last.given])
    => /\ ~last.result
       /\ ~last.consulted
       /\ last.net = 0
       /\ active_players = last.active_before
       /\ roster_file = last.file_before

\* team 'XX' is rejected by a validator that holds a roster
C11_Witness ==
    /\ last.op = "validate_player_data"
    /\ Field(last.given, "team") = <<"X","X">>
    /\ last.active_before # {}
    /\ ~last.result

\* a record whose key is in the expired cache file is rejected while every
\* source fails
C4_Witness ==
    /\ last.op = "validate_player"
    /\ last.active_before = {}
    /\ last.file_before.exists
    /\ ~_load_cached_roster(last.file_before, last.at).some
    /\ last.no_players
    /\ IdentityKeys[last.player] \in last.file_before.active_players
    /\ ~last.result

\* the call of validate_player is about a record with a valid team and
\* position whose key is not in the roster the validator holds
NoExactMatch ==
    /\ last.op = "validate_player"
    /\ ValidTeamAndPosition[last.player]
    /\ IdentityKeys[last.player] \notin active_players

\* C10 as claimed: without an exact match the record is accepted if and only
\* if some key of its position and team has name similarity >= 0.85.
C10_AcceptsAtLeast085 ==
    NoExactMatch => (last.result <=> SimilarAtLeast[active_players, last.player])

\* C10: without an exact match the record is accepted if and only if some key
\* of its position and team has name similarity strictly above 0.85; a
\* similarity of exactly 0.85 is rejected.
C10_AcceptsAbove085 ==
    NoExactMatch => (last.result <=> SimilarAbove[active_players, last.player])

\* a record at similarity 34/40 = 0.85 to a roster key is rejected
C10_Witness ==
    /\ NoExactMatch
    /\ \E key \in active_players : Similarity(last.player, key) = <<34, 40>>
    /\ ~SimilarAbove[active_players, last.player]
    /\ ~last.result

(***************************************************************************)
(* The two cached fetches as a state machine                               *)
(***************************************************************************)
GetAdpData ==
    \E key \in AdpRequests, reply \in AdpReplies :
        \E r \in {get_adp_data(adp_cache, key, now, reply)} :
            /\ adp_cache' = r.file
            /\ last' = [op |-> "get_adp_data", key |-> key, ret |-> r.ret,
                        net |-> r.net, at |-> now, raised |-> FALSE,
                        end |-> FetchAdp(reply, key[1]).end,
                        fetched |-> FetchAdp(reply, key[1]).data]
            /\ UNCHANGED <<now, notAdp>>

NextCache ==
    \/ Tick
    \/ NewValidator
    \/ GetActiveNflPlayers
    \/ GetAdpData

SpecCache == Init /\ [][NextCache]_vars

(***************************************************************************)
(* Properties of the cached fetches                                        *)
(***************************************************************************)
\* the ADP entry of a request is written and its age is below / at least the TTL
AdpEntryWithinTtl(file, key, t) ==
    /\ file.exists /\ key \in DOMAIN file.cache
    /\ (t - file.cache[key].timestamp) * HoursPerTick < AdpCacheHours

AdpEntryExpired(file, key, t) ==
    /\ file.exists /\ key \in DOMAIN file.cache
    /\ (t - file.cache[key].timestamp) * HoursPerTick >= AdpCacheHours

RosterWithinTtl(file, t) ==
    file.exists /\ (t - file.timestamp) * HoursPerTick < RosterCacheHours

RosterExpired(file, t) ==
    file.exists /\ (t - file.timestamp) * HoursPerTick >= RosterCacheHours

\* the step is a call of get_adp_data / get_active_nfl_players: it leaves the
\* call in last, and only the clock's step keeps last and moves the clock
AdpCall == last'.op = "get_adp_data" /\ now' = now

RosterCall == last'.op = "get_active_nfl_players" /\ now' = now

\* the request's refresh failed: the ADP request did not end well, or no
\* roster source gave players
AdpRefreshFailed == last'.end # "return"

RosterRefreshFailed == last'.no_players

\* C5: once a fetch result is in the cache, a request with the same
\* parameters made before the TTL elapses returns the cached payload and
\* sends no request, whatever the payload is (an empty list included).
C5_ServedFromCache ==
    [][/\ (AdpCall /\ AdpEntryWithinTtl(adp_cache, last'.key, now))
          => /\ last'.net = 0
             /\ last'.ret = [list |-> adp_cache.cache[last'.key].data]
       /\ (RosterCall /\ RosterWithinTtl(roster_file, now))
          => /\ last'.net = 0
             /\ last'.ret = roster_file.active_players]_vars

FindPlayer_byname(data, new_player) ==
    Min({ i \in 1..Len(data) :
            Get(data[i], "name", PyNone) = Get(new_player, "name", PyNone) }
        \cup {Len(data) + 1}) % (Len(data) + 1)

\* the first stored player of the new player's name and position, 0 if none
FindPlayer(data, new_player) ==
    Min({ i \in 1..Len(data) :
            /\ Get(data[i], "name", PyNone) = Get(new_player, "name", PyNone)
            /\ Get(data[i], "position", PyNone) = Get(new_player, "position", PyNone) }
        \cup {Len(data) + 1}) % (Len(data) + 1)

\* one player of the batch: existing.update(new_player) / {"$set": player},
\* or an append / upsert
UpsertAt(data, i, new_player) ==
    IF i = 0 THEN Append(data, new_player)
    ELSE [data EXCEPT ![i] = new_player @@ data[i]]

RECURSIVE UpsertAll(_, _)
UpsertAll(data, players) ==
    IF players = <<>> THEN data
    ELSE UpsertAll(UpsertAt(data, FindPlayer(data, Head(players)), Head(players)),
                   Tail(players))

\* insert_players: the store afterwards.  Over MongoDB done is how many
\* update_one calls went through before one raised (all of them when none
\* did); the local store takes the whole batch.
insert_players(data, players, done) == UpsertAll(data, SubSeq(players, 1, done))

\* the first stored player of that name, 0 if none
FindName(data, player_name) ==
    Min({ i \in 1..Len(data) : Get(data[i], "name", PyNone) = PyStr(player_name) }
        \cup {Len(data) + 1}) % (Len(data) + 1)

\* update_player_drafted_status had it set the flag on every player of the name
SetDrafted_every(data, i, drafted) ==
    IF i = 0 THEN [ret |-> FALSE, data |-> data]
    ELSE [ret |-> TRUE,
          data |-> [j \in 1..Len(data) |->
                      IF Get(data[j], "name", PyNone) = Get(data[i], "name", PyNone)
                      THEN Put(data[j], "drafted", PyBool(drafted)) ELSE data[j]]]

\* player['drafted'] = drafted on the player found, {"$set": {"drafted": drafted}}
SetDrafted(data, i, drafted) ==
    IF i = 0 THEN [ret |-> FALSE, data |-> data]
    ELSE [ret |-> TRUE, data |-> [data EXCEPT ![i] = Put(data[i], "drafted", PyBool(drafted))]]

\* update_player_drafted_status: the value returned and the store afterwards;
\* over MongoDB the call may raise inside, which returns False
update_player_drafted_status(data, player_name, drafted, raised) ==
    IF raised THEN [ret |-> FALSE, data |-> data]
    ELSE SetDrafted(data, FindName(data, player_name), drafted)

McCaffrey ==
    <<"C","h","r","i","s","t","i","a","n"," ","M","c","C","a","f","f","r","e","y">>

NflMock == <<"N","F","L","_","M","o","c","k">>

\* create_mock_comprehensive_database(): every record has 'drafted': False
MockPlayers ==
    << [name |-> PyStr(JoshAllen), position |-> PyStr(QB), drafted |-> PyBool(FALSE),
        source |-> PyStr(NflMock)],
       [name |-> PyStr(McCaffrey), position |-> PyStr(RB), drafted |-> PyBool(FALSE),
        source |-> PyStr(NflMock)] >>

\* the records the other population and cleaning paths insert: a rostered
\* and a free player of an ESPN league, a record without a drafted field, a
\* player of the same name at another position
StoreRecords ==
    { [name |-> PyStr(JoshAllen), position |-> PyStr(QB), drafted |-> PyBool(TRUE)],
      [name |-> PyStr(McCaffrey), position |-> PyStr(RB), drafted |-> PyBool(FALSE)],
      [name |-> PyStr(JoshAllen), position |-> PyStr(QB), rank |-> PyStr(<<"1">>)],
      [name |-> PyStr(JoshAllen), position |-> PyStr(<<"L","B">>),
       drafted |-> PyBool(FALSE)] }

\* players a batch may hold
MaxBatch == 2

\* a batch holds a record once
Batches ==
    UNION { { b \in [1..n -> StoreRecords] : \A i, j \in 1..n : b[i] = b[j] => i = j } :
              n \in 1..MaxBatch }

DraftNames == {JoshAllen, McCaffrey, ZayFlowers}

\* how far a batch gets: to its end, or over MongoDB to any earlier player
Progress(players) ==
    IF mongodb_available THEN 0..Len(players) ELSE {Len(players)}

\* _save_data: the local store dumps self.data to local_players.json and only
\* logs a failed write; over MongoDB the file is not written
_save_data(file, data, failed) ==
    IF mongodb_available \/ failed THEN file ELSE data

\* the dicts of the search cache after a call on the store: the local store's
\* get_all_players hands out self.data.copy(), the stored dicts themselves, so
\* a change made to a stored player in place shows in the cache; find() of
\* MongoDB builds new dicts
Cached(cache, data) ==
    IF mongodb_available THEN cache
    ELSE SubSeq(data, 1, Min({Len(cache), Len(data)}))

\* get_all_players: [] when collection.find raises
get_all_players(data, failed) == IF failed THEN <<>> ELSE data

\* the loop over query.items(): player.get(key) != value ends the match
Matches(player, query) ==
    \A key \in DOMAIN query : Get(player, key, PyNone) = query[key]

\* search_players: the stored players that match, [] when collection.find raises
search_players(data, query, failed) ==
    IF failed THEN <<>> ELSE SelectSeq(data, LAMBDA player : Matches(player, query))

\* whether a read of the collection fails
ReadFailures == IF mongodb_available THEN BOOLEAN ELSE {FALSE}

\* refresh_cache: self.players_cache = get_all_players()
refresh_cache(data, failed) == get_all_players(data, failed)

InsertPlayers ==
    \E players \in Batches :
        \E done \in Progress(players) :
            /\ store' = insert_players(store, players, done)
            /\ local_file' = _save_data(local_file, store', FALSE)
            /\ players_cache' = Cached(players_cache, store')
            /\ last' = [op |-> "insert_players", players |-> players,
                        raised |-> done < Len(players)]
            /\ UNCHANGED notStore

\* POST /api/populate-nfl with use_mock (or with the Sleeper API down)
ApiPopulateNfl ==
    \E done \in Progress(MockPlayers), read_failed \in ReadFailures :
        /\ store' = insert_players(store, MockPlayers, done)
        /\ local_file' = _save_data(local_file, store', FALSE)
        /\ players_cache' = IF done < Len(MockPlayers)
                            THEN Cached(players_cache, store')
                            ELSE refresh_cache(store', read_failed)
        /\ last' = [op |-> "api_populate_nfl", players |-> MockPlayers,
                    raised |-> done < Len(MockPlayers)]
        /\ UNCHANGED notStore

\* the draft and undraft actions of the application
UpdatePlayerDraftedStatus ==
    \E player_name \in DraftNames, drafted \in BOOLEAN :
        \E raised \in {FALSE, mongodb_available} :
            \E r \in {update_player_drafted_status(store, player_name, drafted, raised)} :
                /\ store' = r.data
                /\ local_file' = IF r.ret THEN _save_data(local_file, r.data, FALSE)
                                 ELSE local_file
                /\ players_cache' = Cached(players_cache, r.data)
                /\ last' = [op |-> "update_player_drafted_status",
                            player_name |-> player_name, drafted |-> drafted,
                            raised |-> raised, ret |-> r.ret]
                /\ UNCHANGED notStore

\* LocalDataStore.clear_all_data, as the loader scripts call it: on a
\* LocalDataStore() of their own, which empties its self.data and the file but
\* neither the collection nor the self.data of the store mongo_utils reads
ClearAllData ==
    /\ local_file' = <<>>
    /\ last' = [op |-> "clear_all_data"]
    /\ UNCHANGED <<store, players_cache, notStore>>

InitStore == InitFiles /\ InitQuiet /\ mongodb_available \in BOOLEAN

NextStore ==
    \/ InsertPlayers
    \/ ApiPopulateNfl
    \/ UpdatePlayerDraftedStatus
    \/ ClearAllData

SpecStore == InitStore /\ [][NextStore]_vars

(***************************************************************************)
(* Properties of the record store                                          *)
(***************************************************************************)
\* the drafted flag of a stored player; a record without the field is not
\* drafted
Drafted(player) == Truthy(Get(player, "drafted", PyBool(FALSE)))

SamePlayer(p, q) ==
    /\ Get(p, "name", PyNone) = Get(q, "name", PyNone)
    /\ Get(p, "position", PyNone) = Get(q, "position", PyNone)

\* some player of the store has another drafted flag after the step
DraftedChanges ==
    \E i \in 1..Len(store), j \in 1..Len(store') :
        SamePlayer(store[i], store'[j]) /\ Drafted(store[i]) # Drafted(store'[j])

\* C2: the drafted flag of a stored player changes only by a draft or undraft
\* action (update_player_drafted_status); the batches of insert_players never
\* change the drafted flag of a player already in the store.
C2_DraftedOnlyByDraftActions ==
    [][DraftedChanges => last'.op = "update_player_drafted_status"]_vars

\* the step is a call of update_player_drafted_status
Updates == last'.op = "update_player_drafted_status"

\* the places of the store's records of that name
Named(player_name) ==
    { i \in 1..Len(store) : Get(store[i], "name", PyNone) = PyStr(player_name) }

\* the store with drafted set on the record at i and nothing else changed
WithDrafted(i, drafted) ==
    [store EXCEPT ![i] = [k \in DOMAIN store[i] \cup {"drafted"} |->
                            IF k = "drafted" THEN PyBool(drafted) ELSE store[i][k]]]

\* C18 as stated: the call returns True exactly when the store holds a record
\* of that name, and then sets drafted on a record of that name and leaves
\* the rest unchanged; otherwise it returns False and the store is unchanged
C18_TrueExactlyWhenHeld ==
    [][Updates =>
         /\ last'.ret = (Named(last'.player_name) # {})
         /\ IF Named(last'.player_name) # {}
            THEN \E i \in Named(last'.player_name) :
                     store' = WithDrafted(i, last'.drafted)
            ELSE store' = store]_vars

\* C18: the call returns True exactly when the store holds a record of that
\* name and the update did not raise; it then sets drafted on the first
\* record of that name and leaves every other record and field unchanged;
\* when no record has that name, or when update_one raises over MongoDB, it
\* returns False and the store is unchanged
C18_TrueWhenHeldAndUpdated ==
    [][Updates =>
         /\ last'.ret = (Named(last'.player_name) # {} /\ ~last'.raised)
         /\ last'.raised => mongodb_available
         /\ IF last'.ret
            THEN \E i \in Named(last'.player_name) :
                     /\ \A j \in Named(last'.player_name) : i <= j
                     /\ store' = WithDrafted(i, last'.drafted)
            ELSE store' = store]_vars

\* a player has been marked drafted in a store that holds a second record of
\* the same name, which kept its flag
C18_Witness ==
    /\ last.op = "update_player_drafted_status" /\ last.ret /\ last.drafted
    /\ \E i, j \in 1..Len(store) :
         /\ i < j
         /\ Get(store[i], "name", PyNone) = PyStr(last.player_name)
         /\ Get(store[j], "name", PyNone) = PyStr(last.player_name)
         /\ Drafted(store[i]) /\ ~Drafted(store[j])

(***************************************************************************)
(* The cleaner as a state machine: one list, cleaned again and again by    *)
(* one PlayerDataValidator                                                 *)
(***************************************************************************)
\* records in the list handed to the cleaner
MaxPlayers == 2

Lists == UNION { [1..n -> DatabasePlayers] : n \in 0..MaxPlayers }

Run(op, r) ==
    [op |-> op, raised |-> r.raised, ret |-> r.ret, roster |-> r.active_players]

DetectDuplicates ==
    /\ Len(runs) < MaxRuns
    /\ \E replies \in Replies :
        \E r \in {detect_duplicates(all_players, active_players, roster_file, now,
                                    replies)} :
            /\ all_players' = r.players
            /\ active_players' = r.active_players
            /\ roster_file' = r.file
            /\ runs' = Append(runs, Run("detect_duplicates", r))
            /\ last' = [op |-> "detect_duplicates", players |-> all_players,
                        raised |-> r.raised, ret |-> r.ret]
            /\ UNCHANGED <<now, adp_cache, storeVars, mongodb_available, sheetVars,
                           pdf_players>>

CleanDatabasePlayers ==
    /\ Len(runs) < MaxRuns
    /\ \E replies \in Replies :
        \E r \in {clean_database_players(all_players, active_players, roster_file,
                                         now, replies)} :
            /\ all_players' = r.players
            /\ active_players' = r.active_players
            /\ roster_file' = r.file
            /\ runs' = Append(runs, Run("clean_database_players", r))
            /\ last' = [op |-> "clean_database_players", players |-> all_players,
                        raised |-> r.raised, ret |-> r.ret]
            /\ UNCHANGED <<now, adp_cache, storeVars, mongodb_available, sheetVars,
                           pdf_players>>

InitCleaner ==
    /\ InitFiles
    /\ mongodb_available = FALSE
    /\ all_players \in Lists
    /\ runs = <<>>
    /\ last = Idle

NextCleaner ==
    \/ DetectDuplicates
    \/ CleanDatabasePlayers

SpecCleaner == InitCleaner /\ [][NextCleaner]_vars

(***************************************************************************)
(* Properties of the cleaner                                               *)
(***************************************************************************)
\* the identity key the roster validator gives a record
IdentityKey(player) ==
    _create_player_key(Field(player, "name"), Field(player, "position"),
                       Field(player, "team"))

\* C3: the list detect_duplicates returns holds at most one record for every
\* identity key, the key being the roster validator's normalisation of name,
\* position and team.
C3_OneRecordPerIdentityKey ==
    last.op = "detect_duplicates" =>
        \A i, j \in 1..Len(last.ret) :
            i < j => IdentityKey(last.ret[i]) # IdentityKey(last.ret[j])

\* C8: a second call of clean_database_players on the same list object, against
\* the same roster, returns what the first call returned, although the first
\* call normalised the records in place.
C8_SecondCallSameOutput ==
    (/\ Len(runs) = 2
     /\ runs[1].op = "clean_database_players"
     /\ runs[2].op = "clean_database_players"
     /\ ~runs[1].raised /\ ~runs[2].raised
     /\ runs[1].roster = runs[2].roster)
    => runs[1].ret = runs[2].ret

(***************************************************************************)
(* _merge_player_data on its own: two records, merged once                 *)
(***************************************************************************)
Bob == <<"B","o","b">>

BobSmith == <<"B","o","b"," ","S","m","i","t","h">>

Absent == [absent |-> TRUE]

\* a dict of the fields that are given a value
Dict(name, rank) ==
    [k \in { f \in {"name", "rank"} :
               (IF f = "name" THEN name ELSE rank) # Absent } |->
        IF k = "name" THEN name ELSE rank]

MergeRecords ==
    { Dict(name, rank) :
        name \in {Absent, PyNone, PyStr(<<>>), PyStr(Bob), PyStr(BobSmith)},
        rank \in {Absent, PyNone, PyStr(<<>>), PyStr(<<"1","2">>), PyInt(0),
                  PyInt(5), PyInt(-1), PyFloat(125), PyBool(TRUE), PyBool(FALSE)} }

MergePlayerData ==
    /\ last.op = "call"
    /\ \E r \in {_merge_player_data(last.player1, last.player2)} :
         last' = [op |-> "_merge_player_data", player1 |-> last.player1,
                  player2 |-> last.player2, raised |-> r.raised, merged |-> r.merged]
    /\ UNCHANGED <<now, roster_file, active_players, notRoster>>

InitMerge ==
    /\ InitFiles
    /\ mongodb_available = FALSE
    /\ all_players = <<>>
    /\ runs = <<>>
    /\ last \in { [op |-> "call", player1 |-> p1, player2 |-> p2] :
                    p1 \in MergeRecords, p2 \in MergeRecords }

NextMerge == MergePlayerData

SpecMerge == InitMerge /\ [][NextMerge]_vars

(***************************************************************************)
(* Properties of the merge                                                 *)
(***************************************************************************)
\* absent, None or the empty string
Empty(d, k) == k \notin DOMAIN d \/ d[k] = PyNone \/ d[k] = PyStr(<<>>)

\* the rule as stated: the incoming value replaces the existing one when the
\* existing one is absent or empty, when both are strings and the incoming one
\* is longer, or when both are numbers and the incoming one is greater
Overwrites(player1, player2, k) ==
    \/ Empty(player1, k)
    \/ /\ TypeOf(player1[k]) = "str" /\ TypeOf(player2[k]) = "str"
       /\ Len(player2[k].str) > Len(player1[k].str)
    \/ /\ IsNumber(player1[k]) /\ IsNumber(player2[k])
       /\ Tenths(player2[k]) > Tenths(player1[k])

\* C9: for every field the incoming record gives a value, _merge_player_data
\* overwrites the existing value exactly when the existing value is absent or
\* empty, or both are strings and the incoming one is longer, or both are
\* numbers and the incoming one is greater; every other field is kept.
C9_MergeOverwriteRule ==
    last.op = "_merge_player_data" =>
        /\ ~last.raised
        /\ \A k \in DOMAIN last.player1 \cup DOMAIN last.player2 :
             IF k \in DOMAIN last.player2 /\ ~Empty(last.player2, k)
             THEN /\ k \in DOMAIN last.merged
                  /\ last.merged[k] =
                       IF Overwrites(last.player1, last.player2, k)
                       THEN last.player2[k] ELSE last.player1[k]
             ELSE (k \in DOMAIN last.merged) = (k \in DOMAIN last.player1)
                  /\ (k \in DOMAIN last.player1 => last.merged[k] = last.player1[k])

\* C28: _merge_player_data completes without raising for every pair of
\* records whose values are strings, numbers, booleans or None, also when a
\* field is a string in one record and a number in the other
C28_MergeNeverRaises ==
    last.op = "_merge_player_data" => ~last.raised

(***************************************************************************)
(* The population paths: an ESPN league and the Sleeper catalogue          *)
(***************************************************************************)
\* what a write of the batch to the store may come to.  Over MongoDB any
\* update_one may raise, and insert_players raises on; the local store takes
\* the whole batch into self.data and _save_data logs a failed file write
WriteOutcomes(data, batch) ==
    IF mongodb_available
    THEN { [data |-> insert_players(data, batch, done),
            failed |-> done < Len(batch), raised |-> done < Len(batch)] :
             done \in 0..Len(batch) }
    ELSE { [data |-> insert_players(data, batch, Len(batch)),
            failed |-> failed, raised |-> FALSE] :
             failed \in IF batch = <<>> THEN {FALSE} ELSE BOOLEAN }

\* a player object of the espn_api package; it has no draft_pick attribute
EspnPlayer(playerId, name, position, proTeam, projected, avg) ==
    [playerId |-> playerId, name |-> name, position |-> position,
     proTeam |-> proTeam, projected_total_points |-> PyFloat(projected),
     avg_points |-> PyFloat(avg)]

\* player_data of add_or_merge
player_data(player_obj, drafted) ==
    [rank |-> PyStr(<<>>),
     name |-> PyStr(player_obj.name),
     position |-> PyStr(player_obj.position),
     team |-> PyStr(player_obj.proTeam),
     projected_points |-> player_obj.projected_total_points,
     avg_points |-> player_obj.avg_points,
     drafted |-> PyBool(drafted)]

\* max(a, b) of two numbers
MaxOf(a, b) == IF Tenths(b) > Tenths(a) THEN b ELSE a

\* the branch "if existing:" of add_or_merge
MergeExisting(existing, new) ==
    [existing EXCEPT
        !.drafted = IF Truthy(existing.drafted) THEN existing.drafted ELSE new.drafted,
        !.rank = IF ~Truthy(existing.rank) /\ Truthy(new.rank)
                 THEN new.rank ELSE existing.rank,
        !.projected_points = MaxOf(existing.projected_points, new.projected_points),
        !.avg_points = MaxOf(existing.avg_points, new.avg_points)]

AddOrMergeAt(found, i, key, new) ==
    IF i = 0 THEN Append(found, [key |-> key, data |-> new])
    ELSE [found EXCEPT ![i].data = MergeExisting(found[i].data, new)]

\* add_or_merge: the dict players, in insertion order, keyed by playerId
add_or_merge(found, player_obj, drafted) ==
    AddOrMergeAt(found,
                 First({ i \in 1..Len(found) : found[i].key = player_obj.playerId }),
                 player_obj.playerId, player_data(player_obj, drafted))

RECURSIVE AddAll(_, _, _)
AddAll(found, objs, drafted) ==
    IF objs = <<>> THEN found
    ELSE AddAll(add_or_merge(found, Head(objs), drafted), Tail(objs), drafted)

\* free_agent_limit: int = 50
free_agent_limit == 50

\* league.free_agents()[:free_agent_limit], nothing when the call raises
FreeAgents(reply) ==
    IF ~reply.ok THEN <<>>
    ELSE SubSeq(reply.list, 1,
                IF Len(reply.list) < free_agent_limit THEN Len(reply.list)
                ELSE free_agent_limit)

\* list(players.values())
Datas(found) == [j \in 1..Len(found) |-> found[j].data]

\* populate_from_espn up to its call of insert_players: whether it gets there
\* and with which list.  With ESPN_S2 and SWID set, League(..., year=season)
\* raises NameError; a league that cannot be fetched raises too
EspnBatch(cookies, league) ==
    IF cookies \/ ~league.ok THEN [reached |-> FALSE, players |-> <<>>]
    ELSE [reached |-> TRUE,
          players |-> Datas(AddAll(AddAll(<<>>, league.roster, TRUE),
                                   FreeAgents(league.free_agents), FALSE))]

\* populate_from_espn once insert_players has answered: "except Exception"
\* catches whatever was raised, the function prints and returns None
populate_from_espn(batch, w) ==
    [raised |-> FALSE,
     inserted |-> batch.reached /\ ~w.raised,
     players |-> batch.players,
     write_failed |-> batch.reached /\ w.failed,
     data |-> w.data]

\* the response of api_populate_espn once populate_from_espn is back
EspnResponse(r) ==
    [op |-> "api_populate_espn", success |-> ~r.raised,
     status |-> IF r.raised THEN 500 ELSE 200,
     players |-> r.players, inserted |-> r.inserted,
     write_failed |-> r.write_failed]

CommandersDst ==
    <<"C","o","m","m","a","n","d","e","r","s"," ","D","/","S","T">>

\* the players of a league: a quarterback, a team defence as ESPN names it,
\* a running back
EspnPlayers ==
    { EspnPlayer(1, JoshAllen, QB, BUF, 3128, 195),
      EspnPlayer(2, CommandersDst, <<"D","/","S","T">>, <<"W","S","H">>, 1100, 68),
      EspnPlayer(3, McCaffrey, RB, <<"S","F">>, 2856, 178) }

\* players on the rosters of a league, and free agents listed
MaxRoster == 2

Leagues ==
    {[ok |-> FALSE, roster |-> <<>>, free_agents |-> [ok |-> FALSE, list |-> <<>>]]}
    \cup { [ok |-> TRUE, roster |-> roster, free_agents |-> free_agents] :
             roster \in UNION { [1..n -> EspnPlayers] : n \in 0..MaxRoster },
             free_agents \in {[ok |-> FALSE, list |-> <<>>]}
                 \cup { [ok |-> TRUE, list |-> <<p>>] : p \in EspnPlayers } }

\* the populators run on a store of fewer players than this
MaxStored == 2

\* POST /api/populate-espn
ApiPopulateEspn ==
    /\ Len(store) < MaxStored
    /\ \E league_id \in BOOLEAN, cookies \in BOOLEAN, league \in Leagues :
        IF ~league_id
        THEN /\ last' = [op |-> "api_populate_espn", success |-> FALSE,
                         status |-> 400, players |-> <<>>, inserted |-> FALSE,
                         write_failed |-> FALSE]
             /\ UNCHANGED <<storeVars, notStore>>
        ELSE \E batch \in {EspnBatch(cookies, league)} :
               \E w \in IF batch.reached THEN WriteOutcomes(store, batch.players)
                        ELSE {[data |-> store, failed |-> FALSE, raised |-> FALSE]} :
                 \E read_failed \in ReadFailures :
                   /\ store' = w.data
                   /\ local_file' = IF batch.players = <<>> THEN local_file
                                    ELSE _save_data(local_file, w.data, w.failed)
                   /\ players_cache' = refresh_cache(w.data, read_failed)
                   /\ last' = EspnResponse(populate_from_espn(batch, w))
                   /\ UNCHANGED notStore

\* a player_info of the Sleeper catalogue
SleeperInfo(full_name, position, team, status, years_exp, age) ==
    [full_name |-> full_name, position |-> position, team |-> team,
     status |-> status, years_exp |-> years_exp, age |-> age]

\* base_projections.get(position, 50.0)
base_projections(position) ==
    CASE position = <<"Q","B">> -> 220
      [] position = <<"R","B">> -> 180
      [] position = <<"W","R">> -> 160
      [] position = <<"T","E">> -> 120
      [] position = <<"K">> -> 100
      [] position = <<"D","E","F">> -> 90
      [] OTHER -> 50

\* in tenths
experience_modifier(years_exp) ==
    IF years_exp >= 2 /\ years_exp <= 8 THEN 11
    ELSE IF years_exp > 8 \/ years_exp = 0 THEN 8
    ELSE 9

\* in hundredths
age_modifier(age) ==
    IF age >= 24 /\ age <= 28 THEN 100
    ELSE IF age > 28 THEN (IF 100 - (age - 28) * 5 > 70 THEN 100 - (age - 28) * 5 ELSE 70)
    ELSE 80

\* _estimate_fantasy_points, in tenths; uniform is what random.uniform(0.7, 1.3)
\* gave, in tenths
_estimate_fantasy_points(player_info, uniform) ==
    (base_projections(player_info.position) * experience_modifier(player_info.years_exp)
       * age_modifier(player_info.age) * uniform + 500) \div 1000

\* whether get_fantasy_relevant_players keeps the player
Kept(player_info) ==
    /\ player_info.position # <<>>
    /\ player_info.full_name # <<>>
    /\ player_info.position \in SixPositions
    /\ StrLower(player_info.status)
         \notin { <<"r","e","t","i","r","e","d">>, <<"s","u","s","p","e","n","d","e","d">> }

\* player_record, its rank still to be given
player_record(player_info, uniform) ==
    [name |-> PyStr(player_info.full_name),
     position |-> PyStr(player_info.position),
     team |-> player_info.team,
     status |-> PyStr(player_info.status),
     projected_points |-> PyFloat(_estimate_fantasy_points(player_info, uniform)),
     drafted |-> PyBool(FALSE),
     rank |-> PyStr(<<>>)]

\* the records in the order of players_data.items()
Records(players_data, luck) ==
    [i \in 1..Len(SelectSeq(players_data, Kept)) |->
        player_record(SelectSeq(players_data, Kept)[i], luck[i])]

\* the position list.sort(key=projected_points, reverse=True) gives record i:
\* after the records with more points and the earlier ones with as many
SortedPlace(records, i) ==
    1 + Cardinality({ j \in 1..Len(records) :
          \/ records[j].projected_points.float > records[i].projected_points.float
          \/ /\ records[j].projected_points.float = records[i].projected_points.float
             /\ j < i })

Digit(n) == <<"0","1","2","3","4","5","6","7","8","9">>[n + 1]

\* str(n) of a natural number
RECURSIVE Str(_)
Str(n) == IF n < 10 THEN <<Digit(n)>> ELSE Str(n \div 10) \o <<Digit(n % 10)>>

Ranked(records) ==
    [k \in 1..Len(records) |->
        [records[CHOOSE i \in 1..Len(records) : SortedPlace(records, i) = k]
            EXCEPT !.rank = PyStr(Str(k))]]

\* get_fantasy_relevant_players
get_fantasy_relevant_players(players_data, luck) == Ranked(Records(players_data, luck))

Truncate(list, n) == SubSeq(list, 1, IF Len(list) < n THEN Len(list) ELSE n)

\* fetch_all_nfl_players: {} when the request fails
fetch_all_nfl_players(reply) == IF reply.ok THEN reply.data ELSE <<>>

\* populate_database up to its call of insert_players
DatabaseBatch(fetched, max_players, luck) ==
    IF fetched = <<>> THEN [reached |-> FALSE, players |-> <<>>]
    ELSE [reached |-> TRUE,
          players |-> Truncate(get_fantasy_relevant_players(fetched, luck),
                               max_players)]

\* populate_database once insert_players has answered
populate_database(batch, w) ==
    [op |-> "populate_database",
     ret |-> batch.reached /\ ~w.raised,
     players |-> batch.players,
     write_failed |-> batch.reached /\ w.failed]

JoeRook == <<"J","o","e"," ","R","o","o","k">>

\* what the Sleeper API may answer: an error, an empty catalogue, a
\* quarterback with a free agent whose team is null, a catalogue with a
\* retired player and a linebacker
SleeperReplies ==
    { [ok |-> FALSE, data |-> <<>>],
      [ok |-> TRUE, data |-> <<>>],
      [ok |-> TRUE,
       data |-> << SleeperInfo(JoshAllen, QB, PyStr(BUF), Active, 6, 28),
                   SleeperInfo(JoeRook, RB, PyNone, Active, 0, 22) >>],
      [ok |-> TRUE,
       data |-> << SleeperInfo(<<"T","o","m"," ","B","r","a","d","y">>, QB,
                               PyStr(<<"T","B">>), <<"R","e","t","i","r","e","d">>, 23, 47),
                   SleeperInfo(<<"T","J"," ","W","a","t","t">>, <<"L","B">>,
                               PyStr(<<"P","I","T">>), Active, 8, 30),
                   SleeperInfo(McCaffrey, RB, PyStr(<<"S","F">>), Active, 7, 28) >>] }

\* what random.uniform(0.7, 1.3) may give, in tenths
Uniforms == {7, 13}

\* NFLPlayerDatabase().populate_database(max_players)
PopulateDatabase ==
    /\ Len(store) < MaxStored
    /\ \E reply \in SleeperReplies, max_players \in {1, 1000} :
        \E luck \in [1..Len(reply.data) -> Uniforms] :
            \E batch \in {DatabaseBatch(fetch_all_nfl_players(reply), max_players, luck)} :
                \E w \in IF batch.reached THEN WriteOutcomes(store, batch.players)
                         ELSE {[data |-> store, failed |-> FALSE, raised |-> FALSE]} :
                    /\ store' = w.data
                    /\ local_file' = IF batch.players = <<>> THEN local_file
                                     ELSE _save_data(local_file, w.data, w.failed)
                    /\ players_cache' = Cached(players_cache, w.data)
                    /\ last' = populate_database(batch, w)
                    /\ UNCHANGED notStore

NextPopulate ==
    \/ ApiPopulateEspn
    \/ PopulateDatabase

SpecPopulate == InitStore /\ [][NextPopulate]_vars

(***************************************************************************)
(* Properties of the population paths                                      *)
(***************************************************************************)
\* position, team and name of a record are fit for the store
FitForStore(record) ==
    /\ Field(record, "position") \in SixPositions
    /\ Field(record, "team") \in nfl_teams
    /\ Len(Field(record, "name")) >= 2

\* C12: every record a population path writes to the store has a position
\* among QB, RB, WR, TE, K, DEF, a team among the 32 codes and a name of at
\* least two characters; a record failing one of these never reaches the store.
C12_StoredRecordsValid ==
    \A i \in 1..Len(store) : FitForStore(store[i])

\* C14: when the write to the store fails during insert_players, the
\* operation that called it ends in an error outcome and does not report
\* success.
C14_WriteFailurePropagated ==
    /\ (last.op = "api_populate_espn" /\ last.write_failed) => ~last.success
    /\ (last.op = "populate_database" /\ last.write_failed) => ~last.ret

(***************************************************************************)
(* ADPDataSource: the consensus over formats                               *)
(***************************************************************************)
HalfPpr == <<"h","a","l","f","-","p","p","r">>

AjBrownPlain == <<"A","J"," ","B","r","o","w","n">>

\* processed players a format's list may hold: one receiver with an ADP of
\* 5.0, 7.0 and none (the reply gave 0), the same receiver spelled with dots
\* at 7.1, and a quarterback at 3.0
AdpPlayers(format_type) ==
    [aj5 |-> FfcPlayer(PyStr(AjBrownPlain), PyStr(WR), PyStr(PHI), PyFloat(50), format_type),
     aj7 |-> FfcPlayer(PyStr(AjBrownPlain), PyStr(WR), PyStr(PHI), PyInt(7), format_type),
     aj0 |-> FfcPlayer(PyStr(AjBrownPlain), PyStr(WR), PyStr(PHI), PyInt(0), format_type),
     dotted |-> FfcPlayer(PyStr(AJBrown), PyStr(WR), PyStr(PHI), PyFloat(71), format_type),
     allen |-> FfcPlayer(PyStr(JoshAllen), PyStr(QB), PyStr(BUF), PyFloat(30), format_type)]

\* the lists get_adp_data may have returned for a format
AdpLists(format_type) ==
    { <<AdpPlayers(format_type)[k]>> : k \in DOMAIN AdpPlayers(format_type) }
    \cup { <<AdpPlayers(format_type).aj5, AdpPlayers(format_type).allen>>,
           <<AdpPlayers(format_type).aj5, AdpPlayers(format_type).dotted>> }

\* one item of multi_format_data, or no item for a format left out
FormatItems(format_type) ==
    {<<>>} \cup { <<[format |-> format_type, players |-> list]>> :
                    list \in AdpLists(format_type) }

\* multi_format_data, its items in the order get_multi_format_adp adds them
MultiFormatData ==
    { s \o p \o h : s \in FormatItems(Standard), p \in FormatItems(Ppr),
                    h \in FormatItems(HalfPpr) }

\* ADPDataSource._create_player_key, tabulated on name, position and team
AdpKeyTable ==
    [name \in {PyStr(AjBrownPlain), PyStr(AJBrown), PyStr(JoshAllen)},
     position \in {PyStr(WR), PyStr(QB)}, team \in {PyStr(PHI), PyStr(BUF)} |->
        _create_player_key(Text(name), Text(position), Text(team))]

AdpPlayerKey(player) == AdpKeyTable[player.name, player.position, player.team]

\* player_adp[player_key]['adp_data'][format_type] = player['adp']
SetFormat(adp_data, i, format_type, adp) ==
    IF i = 0 THEN Append(adp_data, [format |-> format_type, adp |-> adp])
    ELSE [adp_data EXCEPT ![i].adp = adp]

\* one player of one format, entered in player_adp
NoteAt(player_adp, i, format_type, player) ==
    IF i = 0
    THEN Append(player_adp,
                [key |-> AdpPlayerKey(player), name |-> player.name,
                 position |-> player.position,
                 team |-> Get(player, "team", PyStr(<<>>)),
                 adp_data |-> <<[format |-> format_type, adp |-> player.adp]>>,
                 formats_count |-> 1])
    ELSE [player_adp EXCEPT
            ![i].adp_data =
                SetFormat(@, First({ j \in 1..Len(@) : @[j].format = format_type }),
                          format_type, player.adp),
            ![i].formats_count = @ + 1]

Note(player_adp, format_type, player) ==
    NoteAt(player_adp,
           First({ i \in 1..Len(player_adp) : player_adp[i].key = AdpPlayerKey(player) }),
           format_type, player)

RECURSIVE NotePlayers(_, _, _)
NotePlayers(player_adp, format_type, list) ==
    IF list = <<>> THEN player_adp
    ELSE NotePlayers(Note(player_adp, format_type, Head(list)), format_type, Tail(list))

RECURSIVE NoteFormats(_, _)
NoteFormats(player_adp, multi_format_data) ==
    IF multi_format_data = <<>> THEN player_adp
    ELSE NoteFormats(NotePlayers(player_adp, Head(multi_format_data).format,
                                 Head(multi_format_data).players),
                     Tail(multi_format_data))

\* sum(adp_values), in tenths
RECURSIVE SumTenths(_)
SumTenths(adp_data) ==
    IF adp_data = <<>> THEN 0 ELSE Head(adp_data).adp.float + SumTenths(Tail(adp_data))

\* round(total / count, 1), in tenths.  A mean that lies halfway between two
\* tenths goes the way its binary float lies, up or down
Round1(total, count, up) ==
    IF 2 * (total % count) < count THEN total \div count
    ELSE IF 2 * (total % count) > count THEN total \div count + 1
    ELSE IF up THEN total \div count + 1 ELSE total \div count

\* player_data with its consensus_adp
Consensus(entry, up) ==
    [name |-> entry.name, position |-> entry.position, team |-> entry.team,
     adp_data |-> entry.adp_data,
     consensus_adp |-> PyFloat(Round1(SumTenths(entry.adp_data), Len(entry.adp_data), up)),
     formats_count |-> entry.formats_count]

\* where consensus_players.sort(key=consensus_adp) puts player i
ConsensusPlace(list, i) ==
    1 + Cardinality({ j \in 1..Len(list) :
          \/ list[j].consensus_adp.float < list[i].consensus_adp.float
          \/ /\ list[j].consensus_adp.float = list[i].consensus_adp.float
             /\ j < i })

SortedByConsensus(list) ==
    [k \in 1..Len(list) |-> list[CHOOSE i \in 1..Len(list) : ConsensusPlace(list, i) = k]]

\* the second loop of calculate_consensus_adp: sum() raises TypeError on an
\* adp that is None
Consensuses(player_adp, ups) ==
    IF \E i \in 1..Len(player_adp) :
         \E j \in 1..Len(player_adp[i].adp_data) : player_adp[i].adp_data[j].adp = PyNone
    THEN [raised |-> TRUE, ret |-> <<>>]
    ELSE [raised |-> FALSE,
          ret |-> SortedByConsensus([i \in 1..Len(player_adp) |->
                                        Consensus(player_adp[i], ups[i])])]

calculate_consensus_adp(multi_format_data, ups) ==
    IF multi_format_data = <<>> THEN [raised |-> FALSE, ret |-> <<>>]
    ELSE Consensuses(NoteFormats(<<>>, multi_format_data), ups)

\* players a call may meet under distinct keys
MaxKeys == 2

CalculateConsensusAdp ==
    /\ last.op = "call"
    /\ \E ups \in [1..MaxKeys -> BOOLEAN] :
         \E r \in {calculate_consensus_adp(last.multi_format_data, ups)} :
           last' = [op |-> "calculate_consensus_adp",
                    multi_format_data |-> last.multi_format_data,
                    raised |-> r.raised, ret |-> r.ret]
    /\ UNCHANGED <<now, roster_file, active_players, notRoster>>

InitConsensus ==
    /\ InitFiles
    /\ mongodb_available = FALSE
    /\ all_players = <<>>
    /\ runs = <<>>
    /\ last \in { [op |-> "call", multi_format_data |-> m] : m \in MultiFormatData }

NextConsensus == CalculateConsensusAdp

SpecConsensus == InitConsensus /\ [][NextConsensus]_vars

(***************************************************************************)
(* Properties of the consensus                                             *)
(***************************************************************************)
\* the last player of the list under the key, 0 when there is none
LastUnder(list, key) ==
    IF \E i \in 1..Len(list) : AdpPlayerKey(list[i]) = key
    THEN CHOOSE i \in 1..Len(list) :
           /\ AdpPlayerKey(list[i]) = key
           /\ \A j \in 1..Len(list) : AdpPlayerKey(list[j]) = key => j <= i
    ELSE 0

\* the ADP value a format has for the key, in tenths: none when the player is
\* missing from the format or has no ADP there
AvailableIn(list, at) ==
    IF at = 0 \/ list[at].adp = PyNone THEN <<>> ELSE <<list[at].adp.float>>

\* the ADP values available for the key, one for each format that has one
RECURSIVE Available(_, _)
Available(multi_format_data, key) ==
    IF multi_format_data = <<>> THEN <<>>
    ELSE AvailableIn(Head(multi_format_data).players,
                     LastUnder(Head(multi_format_data).players, key))
         \o Available(Tail(multi_format_data), key)

RECURSIVE Total(_)
Total(values) == IF values = <<>> THEN 0 ELSE Head(values) + Total(Tail(values))

\* the value, in tenths, is the mean of the values rounded to one decimal
IsRoundedMean(value, values) ==
    /\ 2 * (Len(values) * value - Total(values)) <= Len(values)
    /\ 2 * (Total(values) - Len(values) * value) <= Len(values)

InputKeys(multi_format_data) ==
    UNION { { AdpPlayerKey(multi_format_data[i].players[j]) :
                j \in 1..Len(multi_format_data[i].players) } :
            i \in 1..Len(multi_format_data) }

\* C13: for every multi-format input calculate_consensus_adp returns one entry
\* for each identity key, and the entry's consensus_adp is the mean, rounded
\* to one decimal, of the ADP values available for that player; a format in
\* which the player is missing or has no ADP value contributes nothing.
C13_ConsensusIsMeanOfAvailable ==
    last.op = "calculate_consensus_adp" =>
        /\ ~last.raised
        /\ \A key \in InputKeys(last.multi_format_data) :
             Available(last.multi_format_data, key) # <<>> =>
                /\ Cardinality({ i \in 1..Len(last.ret) :
                                   AdpPlayerKey(last.ret[i]) = key }) = 1
                /\ \A i \in 1..Len(last.ret) :
                     AdpPlayerKey(last.ret[i]) = key =>
                        IsRoundedMean(last.ret[i].consensus_adp.float,
                                      Available(last.multi_format_data, key))

(***************************************************************************)
(* The source adapters when a request fails                                *)
(***************************************************************************)
\* requests.get, response.raise_for_status() and response.json() with no
\* try around them: the HTTP error leaves the function
RaiseForStatus(reply) ==
    [raised |-> ~reply.ok, ret |-> IF reply.ok THEN reply.data ELSE PyNone]

\* the answers of an HTTP endpoint: an error, an empty body, a body
HttpReplies ==
    { [ok |-> FALSE, data |-> <<>>], [ok |-> TRUE, data |-> <<>>],
      [ok |-> TRUE, data |-> <<JoshAllen>>] }

Called(op, failed, r) ==
    [op |-> op, failed |-> failed, raised |-> r.raised, ret |-> r.ret]

\* SleeperAPI.get_players()
GetPlayers ==
    \E reply \in SleeperReplies :
        /\ last' = Called("get_players", ~reply.ok, RaiseForStatus(reply))
        /\ UNCHANGED <<storeVars, notStore>>

\* SleeperAPI.get_draft_picks(draft_id)
GetDraftPicks ==
    \E reply \in HttpReplies :
        /\ last' = Called("get_draft_picks", ~reply.ok, RaiseForStatus(reply))
        /\ UNCHANGED <<storeVars, notStore>>

\* ESPNAPI.get_league(league_id)
GetLeague ==
    \E reply \in HttpReplies :
        /\ last' = Called("get_league", ~reply.ok, RaiseForStatus(reply))
        /\ UNCHANGED <<storeVars, notStore>>

\* ESPNAPI.get_draft(league_id)
GetDraft ==
    \E reply \in HttpReplies :
        /\ last' = Called("get_draft", ~reply.ok, RaiseForStatus(reply))
        /\ UNCHANGED <<storeVars, notStore>>

\* NFLPlayerDatabase().fetch_all_nfl_players()
FetchAllNflPlayers ==
    \E reply \in SleeperReplies :
        /\ last' = Called("fetch_all_nfl_players", ~reply.ok,
                          [raised |-> FALSE, ret |-> fetch_all_nfl_players(reply)])
        /\ UNCHANGED <<storeVars, notStore>>

\* NFLRosterValidator()._fetch_from_source(source)
FetchFromSource ==
    \E k \in {1, 2}, reply \in SourceReplies :
        /\ last' = Called("_fetch_from_source", ~reply.ok,
                          [raised |-> FALSE, ret |-> Fetch(k, reply)])
        /\ UNCHANGED <<storeVars, notStore>>

\* FreshDatabaseLoader().load_fresh_data() when the Sleeper request fails:
\* the except clause logs the error and raises it again
LoadFreshData ==
    \E reply \in { r \in SleeperReplies : ~r.ok } :
        /\ last' = Called("load_fresh_data", TRUE, [raised |-> TRUE, ret |-> PyNone])
        /\ UNCHANGED <<storeVars, notStore>>

NextAdapters ==
    \/ Tick
    \/ GetAdpData
    \/ FetchFromSource
    \/ GetPlayers
    \/ GetDraftPicks
    \/ GetLeague
    \/ GetDraft
    \/ FetchAllNflPlayers
    \/ LoadFreshData

SpecAdapters == Init /\ [][NextAdapters]_vars

(***************************************************************************)
(* Properties of the source adapters                                       *)
(***************************************************************************)
AdapterOps ==
    { "get_adp_data", "_fetch_from_source", "get_players", "get_draft_picks",
      "get_league", "get_draft", "fetch_all_nfl_players", "load_fresh_data" }

\* the last call was an adapter's and its request failed
RequestFailed ==
    /\ last.op \in AdapterOps
    /\ IF last.op = "get_adp_data" THEN last.net = 1 /\ last.end # "return"
       ELSE last.failed

\* C15: when the request of a source adapter fails, the adapter returns and
\* no exception reaches its caller
C15_FailureHandledInside == RequestFailed => ~last.raised

(***************************************************************************)
(* The normaliser on its own: one name, one team or one position           *)
(***************************************************************************)
\* the first words, the spacings, the family names and the endings the names
\* are put together from
Firsts ==
    { <<"A","J">>, <<"D","J">>, <<"C","J">>, <<"P","J">>, <<"J","o","s","h">>,
      <<"j","o","s","h">>, <<"Z","A","Y">> }

Gaps == { <<" ">>, <<" "," ">> }

Families ==
    { <<"B","r","o","w","n">>, <<"a","l","l","e","n">>, <<"M","O","O","R","E">>,
      <<"S","t","."," ","B","r","o","w","n">>,
      <<"S","m","i","t","h","-","S","c","h","u","s","t","e","r">> }

Endings ==
    { <<>>, <<" ","J","r",".">>, <<" ","J","r">>, <<" ","S","r",".">>,
      <<" ","j","r",".">>, <<" ","I","I","I">>, <<" ","I","V">>, <<" "," ","V">> }

NameParts ==
    [first : Firsts, gap : Gaps, family : Families, ending : Endings]

NameOf(parts) == parts.first \o parts.gap \o parts.family \o parts.ending

TeamInputs ==
    nfl_teams \cup
    { <<"L","A","S">>, <<"L","V","R","D">>, <<"W","S","H">>, <<"W","F","T">>,
      <<"J","A","C">>, <<"b","u","f">>, <<" ","K","C"," ">>, <<"w","s","h">>,
      <<>>, <<" ">>, <<"X","X">>, <<"F","A">>, <<"O","A","K">> }

PositionInputs ==
    SixPositions \cup
    { <<"D","/","S","T">>, <<"D","S","T">>, <<"d","/","s","t">>, <<"q","b">>,
      <<" ","W","R"," ">>, <<"F","L","E","X">>, <<"S","U","P","E","R","F","L","E","X">>,
      <<"B","N">>, <<"b","n">>, <<>>, <<"X","X">>, <<"L","B">>, <<"P">> }

\* PlayerDataValidator().clean_player_name(name)
CleanPlayerName ==
    /\ last.op = "call" /\ last.of = "name"
    /\ last' = [op |-> "clean_player_name", parts |-> last.parts,
                name |-> NameOf(last.parts),
                ret |-> clean_player_name(NameOf(last.parts))]
    /\ UNCHANGED <<now, roster_file, active_players, notRoster>>

\* PlayerDataValidator().normalize_team(team)
NormalizeTeam ==
    /\ last.op = "call" /\ last.of = "team"
    /\ last' = [op |-> "normalize_team", team |-> last.team,
                ret |-> normalize_team(last.team)]
    /\ UNCHANGED <<now, roster_file, active_players, notRoster>>

\* PlayerDataValidator().normalize_position(position)
NormalizePosition ==
    /\ last.op = "call" /\ last.of = "position"
    /\ last' = [op |-> "normalize_position", position |-> last.position,
                ret |-> normalize_position(last.position)]
    /\ UNCHANGED <<now, roster_file, active_players, notRoster>>

InitNormaliser ==
    /\ InitFiles
    /\ mongodb_available = FALSE
    /\ all_players = <<>>
    /\ runs = <<>>
    /\ last \in { [op |-> "call", of |-> "name", parts |-> parts] : parts \in NameParts }
           \cup { [op |-> "call", of |-> "team", team |-> team] : team \in TeamInputs }
           \cup { [op |-> "call", of |-> "position", position |-> position] :
                    position \in PositionInputs }

NextNormaliser ==
    \/ CleanPlayerName
    \/ NormalizeTeam
    \/ NormalizePosition

SpecNormaliser == InitNormaliser /\ [][NextNormaliser]_vars

(***************************************************************************)
(* Properties of the normaliser                                            *)
(***************************************************************************)
Initials == { name_variations[k] : k \in DOMAIN name_variations }

\* the name as stated: the first word dotted when it is a known pair of
\* initials and title-cased otherwise, one space, the family name
\* title-cased, the ending gone
StatedName(parts) ==
    (IF parts.first \in Initials THEN Dotted(parts.first) ELSE Title(parts.first))
    \o <<" ">> \o Title(parts.family)

\* C16: clean_player_name returns the whitespace-collapsed, title-cased name
\* with a trailing Jr., Sr., III, IV or V removed and a known two-letter
\* initial word expanded to its dotted form; 'AJ Brown Jr.' gives 'A.J. Brown'
C16_CleanNameAsStated ==
    last.op = "clean_player_name" => last.ret = StatedName(last.parts)

\* the aliases and their canonical codes
TeamAliases ==
    { <<"L","A","S">>, <<"L","V","R","D">>, <<"W","S","H">>, <<"W","F","T">>,
      <<"J","A","C">> }

TeamOfAlias(alias) ==
    IF alias \in { <<"L","A","S">>, <<"L","V","R","D">> } THEN <<"L","V">>
    ELSE IF alias \in { <<"W","S","H">>, <<"W","F","T">> } THEN <<"W","A","S">>
    ELSE <<"J","A","X">>

PositionAliases == { <<"D","/","S","T">>, <<"D","S","T">> }

Benches == { <<"F","L","E","X">>, <<"S","U","P","E","R","F","L","E","X">>, <<"B","N">> }

\* the input as the normaliser reads it: upper-cased, outer spaces gone
Read(x) == Strip(StrUpper(x))

\* aliases give their canonical code and canonical codes are kept
KnownCodes ==
    /\ (last.op = "normalize_team" /\ Read(last.team) \in TeamAliases)
          => last.ret = TeamOfAlias(Read(last.team))
    /\ (last.op = "normalize_team" /\ Read(last.team) \in nfl_teams)
          => last.ret = Read(last.team)
    /\ (last.op = "normalize_position" /\ Read(last.position) \in PositionAliases)
          => last.ret = <<"D","E","F">>
    /\ (last.op = "normalize_position" /\ Read(last.position) \in SixPositions)
          => last.ret = Read(last.position)

\* C17 as stated: aliases give their canonical code, canonical codes are
\* kept, and every other input gives the empty string
C17_UnmappableGivesEmpty ==
    /\ KnownCodes
    /\ (last.op = "normalize_team" /\ Read(last.team) \notin TeamAliases \cup nfl_teams)
          => last.ret = <<>>
    /\ (last.op = "normalize_position"
          /\ Read(last.position) \notin PositionAliases \cup SixPositions)
          => last.ret = <<>>

\* C17: aliases give their canonical code and canonical codes are kept; an
\* empty team gives 'FA'; FLEX, SUPERFLEX, BN and an empty position give the
\* empty string; every other input is returned upper-cased and stripped
C17_UnmappablePassedThrough ==
    /\ KnownCodes
    /\ (last.op = "normalize_team" /\ Read(last.team) \notin TeamAliases \cup nfl_teams)
          => last.ret = IF last.team = <<>> THEN <<"F","A">> ELSE Read(last.team)
    /\ (last.op = "normalize_position"
          /\ Read(last.position) \notin PositionAliases \cup SixPositions)
          => last.ret = IF Read(last.position) \in Benches THEN <<>>
                        ELSE Read(last.position)

\* an unknown team code has been normalised and came back as it was
C17_Witness ==
    /\ last.op = "normalize_team" /\ last.team = <<"X","X">>
    /\ last.ret = <<"X","X">>

(***************************************************************************)
(* PDFPlayerSheet: the players of a sheet, marked, saved and loaded        *)
(***************************************************************************)
PlayerFields == {"name", "position", "team", "rank", "drafted", "adp"}

\* Player.to_dict
to_dict(p) == [k \in PlayerFields |-> p[k]]

\* Player.from_dict had it left drafted as the constructor sets it
from_dict_undrafted(data) ==
    [name |-> data.name, position |-> data.position, team |-> data.team,
     rank |-> data.rank, drafted |-> PyBool(FALSE), adp |-> Get(data, "adp", PyNone)]

\* Player.from_dict
from_dict(data) ==
    [name |-> data.name, position |-> data.position, team |-> data.team,
     rank |-> data.rank, drafted |-> Get(data, "drafted", PyBool(FALSE)),
     adp |-> Get(data, "adp", PyNone)]

\* json.dump of one value: the text of a string between quotes (the names
\* hold no character that JSON escapes), a number in digits, true, false, null
dumps(x) ==
    CASE TypeOf(x) = "str" -> <<"\"">> \o x.str \o <<"\"">>
      [] TypeOf(x) = "int" -> Str(x.int)
      [] TypeOf(x) = "float" -> Str(x.float \div 10) \o <<".", Digit(x.float % 10)>>
      [] TypeOf(x) = "bool" -> IF x.bool THEN <<"t","r","u","e">>
                               ELSE <<"f","a","l","s","e">>
      [] OTHER -> <<"n","u","l","l">>

DigitValue(c) == CHOOSE n \in 0..9 : Digit(n) = c

\* the number a run of digits spells
RECURSIVE Number(_)
Number(digits) ==
    IF digits = <<>> THEN 0
    ELSE 10 * Number(SubSeq(digits, 1, Len(digits) - 1)) + DigitValue(digits[Len(digits)])

\* json.load of one value
loads(text) ==
    IF Head(text) = "\"" THEN PyStr(SubSeq(text, 2, Len(text) - 1))
    ELSE IF text = <<"n","u","l","l">> THEN PyNone
    ELSE IF text = <<"t","r","u","e">> THEN PyBool(TRUE)
    ELSE IF text = <<"f","a","l","s","e">> THEN PyBool(FALSE)
    ELSE IF \E i \in DOMAIN text : text[i] = "."
    THEN PyFloat(Number(SelectSeq(text, LAMBDA c : c # ".")))
    ELSE PyInt(Number(text))

\* save: json.dump([p.to_dict() for p in self.players], f, indent=2)
save(players) ==
    [exists |-> TRUE,
     objects |-> [i \in 1..Len(players) |->
                    [k \in PlayerFields |-> dumps(to_dict(players[i])[k])]]]

\* load: [Player.from_dict(d) for d in json.load(f)]
load(file) ==
    [i \in 1..Len(file.objects) |->
        from_dict([k \in DOMAIN file.objects[i] |-> loads(file.objects[i][k])])]

\* the first player of that name whatever the case of the letters, 0 if none
FirstNamed(players, player_name) ==
    Min({ i \in 1..Len(players) :
            StrLower(players[i].name.str) = StrLower(player_name) }
        \cup {Len(players) + 1}) % (Len(players) + 1)

MarkAt(players, i) ==
    IF i = 0 THEN players ELSE [players EXCEPT ![i].drafted = PyBool(TRUE)]

\* mark_drafted: the first player of that name is drafted, and the loop breaks
mark_drafted(players, player_name) ==
    MarkAt(players, FirstNamed(players, player_name))

NotDrafted(p) == ~Truthy(p.drafted)

\* get_available_players
get_available_players(players) == SelectSeq(players, NotDrafted)

JustinJefferson ==
    <<"J","u","s","t","i","n"," ","J","e","f","f","e","r","s","o","n">>

\* the dicts EnhancedPDFParser.parse_pdf may return: a line with an ADP, a
\* line without one, a table row whose rank is a float and whose ADP cell is
\* empty, and a namesake at another position and team
ParsedPlayers ==
    << [name |-> PyStr(McCaffrey), position |-> PyStr(RB), team |-> PyStr(<<"S","F">>),
        rank |-> PyInt(1), source |-> PyStr(<<"p","d","f">>), adp |-> PyFloat(12)],
       [name |-> PyStr(JustinJefferson), position |-> PyStr(WR),
        team |-> PyStr(<<"M","I","N">>), rank |-> PyInt(2),
        source |-> PyStr(<<"p","d","f">>)],
       [name |-> PyStr(JoshAllen), position |-> PyStr(QB), team |-> PyStr(BUF),
        rank |-> PyFloat(30), adp |-> PyNone],
       [name |-> PyStr(JoshAllen), position |-> PyStr(RB),
        team |-> PyStr(<<"J","A","X">>), rank |-> PyInt(14), adp |-> PyFloat(215)] >>

\* the lists parse_pdf may give: none when the PDF cannot be read, the two
\* lines of the test, the namesakes with a player between them, two players
ParsedSheets ==
    { [i \in 1..Len(picks) |-> ParsedPlayers[picks[i]]] :
        picks \in { <<>>, <<1, 2>>, <<3, 2, 4>>, <<4, 1>> } }

\* the names a user may pass to mark_drafted
MarkNames == { McCaffrey, StrLower(McCaffrey), JoshAllen, ZayFlowers }

\* PDFPlayerSheet(pdf_path)
NewSheet ==
    /\ sheet_players' = <<>>
    /\ marked' = Fresh(<<>>)
    /\ last' = [op |-> "PDFPlayerSheet"]
    /\ UNCHANGED <<json_file, saved_players, notSheet>>

\* parse_pdf on the sheet just constructed: the parser's dicts become Players
ParsePdf ==
    /\ sheet_players = <<>>
    /\ \E player_dicts \in ParsedSheets :
        \E players \in {[i \in 1..Len(player_dicts) |-> from_dict(player_dicts[i])]} :
            /\ sheet_players' = players
            /\ marked' = Fresh(players)
            /\ last' = [op |-> "parse_pdf"]
    /\ UNCHANGED <<json_file, saved_players, notSheet>>

MarkDrafted ==
    \E player_name \in MarkNames :
        /\ sheet_players' = mark_drafted(sheet_players, player_name)
        /\ marked' = [marked EXCEPT !.names = @ \cup {player_name}]
        /\ last' = [op |-> "mark_drafted", player_name |-> player_name]
        /\ UNCHANGED <<json_file, saved_players, notSheet>>

GetAvailablePlayers ==
    /\ last' = [op |-> "get_available_players",
                ret |-> get_available_players(sheet_players)]
    /\ UNCHANGED <<sheetVars, notSheet>>

Save ==
    /\ json_file' = save(sheet_players)
    /\ saved_players' = sheet_players
    /\ last' = [op |-> "save"]
    /\ UNCHANGED <<sheet_players, marked, notSheet>>

\* load: open raises FileNotFoundError when the sheet was never saved
Load ==
    IF ~json_file.exists
    THEN /\ last' = [op |-> "load", raised |-> TRUE]
         /\ UNCHANGED <<sheetVars, notSheet>>
    ELSE \E players \in {load(json_file)} :
           /\ sheet_players' = players
           /\ marked' = Fresh(players)
           /\ last' = [op |-> "load", raised |-> FALSE]
           /\ UNCHANGED <<json_file, saved_players, notSheet>>

NextSheet ==
    \/ NewSheet
    \/ ParsePdf
    \/ MarkDrafted
    \/ GetAvailablePlayers
    \/ Save
    \/ Load

SpecSheet == Init /\ [][NextSheet]_vars

(***************************************************************************)
(* Properties of the player sheet                                          *)
(***************************************************************************)
\* the player was available when the sheet was parsed or loaded and no name
\* marked since is his, whatever the case of the letters
NeverMarked(p) ==
    /\ ~Truthy(p.drafted)
    /\ \A player_name \in marked.names : StrLower(p.name.str) # StrLower(player_name)

\* C19: after any sequence of mark_drafted calls get_available_players()
\* holds no player whose name was passed to mark_drafted, compared without
\* case, and every other player, in the original order
C19_AvailableAreNeverMarked ==
    last.op = "get_available_players" =>
        last.ret = SelectSeq(marked.original, NeverMarked)

\* the six attributes of the two players are equal
SamePlayerObject(p, q) == \A k \in PlayerFields : p[k] = q[k]

\* C20: after save and then load on the same path the sheet holds the
\* players that were saved, in the same order, each with equal name,
\* position, team, rank, adp and drafted
C20_LoadRestoresSaved ==
    (last.op = "load" /\ ~last.raised) =>
        /\ Len(sheet_players) = Len(saved_players)
        /\ \A i \in 1..Len(sheet_players) :
             SamePlayerObject(sheet_players[i], saved_players[i])

\* a sheet of three players, one drafted, one with a float rank and no ADP,
\* has been saved and loaded
C20_Witness ==
    /\ last.op = "load" /\ ~last.raised
    /\ Len(sheet_players) = 3
    /\ \E i, j \in 1..3 :
         /\ Truthy(sheet_players[i].drafted)
         /\ sheet_players[j].rank = PyFloat(30) /\ sheet_players[j].adp = PyNone

(***************************************************************************)
(* The loop of detect_duplicates, one valid record at a time               *)
(***************************************************************************)
JoshAllan == <<"J","o","s","h"," ","A","l","l","a","n">>

JoshAlen == <<"J","o","s","h"," ","A","l","e","n">>

\* records that passed validate_player_data: Josh Allen with an integer rank
\* and with a string rank, a spelling 0.90 similar to his name and one 0.947
\* similar, the first spelling at another position, another player
ValidRecords ==
    { [name |-> PyStr(JoshAllen), position |-> PyStr(QB), team |-> PyStr(BUF),
       rank |-> PyInt(1)],
      [name |-> PyStr(JoshAllen), position |-> PyStr(QB), team |-> PyStr(BUF),
       rank |-> PyStr(<<"1","2">>)],
      [name |-> PyStr(JoshAllan), position |-> PyStr(QB), team |-> PyStr(BUF),
       adp |-> PyFloat(215)],
      [name |-> PyStr(JoshAlen), position |-> PyStr(QB), team |-> PyStr(BUF),
       adp |-> PyFloat(220)],
      [name |-> PyStr(JoshAllan), position |-> PyStr(RB), team |-> PyStr(BUF)],
      [name |-> PyStr(McCaffrey), position |-> PyStr(RB), team |-> PyStr(<<"S","F">>),
       rank |-> PyInt(2)] }

\* records the loop has taken before the one looked at
MaxSeen == 2

\* seen_players after the loop has taken the records of the list
RECURSIVE SeenFrom(_, _)
SeenFrom(r, list) ==
    IF list = <<>> \/ r.raised THEN r.seen
    ELSE SeenFrom(Remember(r.seen, Head(list),
                           ExactAt(r.seen, SeenKey(Head(list))),
                           SimilarAt(r.seen, Head(list))),
                  Tail(list))

SeenPlayers ==
    { SeenFrom([raised |-> FALSE, seen |-> <<>>], list) :
        list \in UNION { [1..n -> ValidRecords] : n \in 0..MaxSeen } }

\* the body of the loop for one record that validate_player_data accepted
RememberPlayer ==
    /\ last.op = "call"
    /\ \E r \in {Remember(last.seen, last.player,
                          ExactAt(last.seen, SeenKey(last.player)),
                          SimilarAt(last.seen, last.player))} :
         last' = [op |-> "detect_duplicates loop", seen |-> last.seen,
                  player |-> last.player, raised |-> r.raised, after |-> r.seen]
    /\ UNCHANGED <<now, roster_file, active_players, notRoster>>

InitRemember ==
    /\ InitFiles
    /\ mongodb_available = FALSE
    /\ all_players = <<>>
    /\ runs = <<>>
    /\ last \in { [op |-> "call", seen |-> seen, player |-> player] :
                    seen \in SeenPlayers, player \in ValidRecords }

NextRemember == RememberPlayer

SpecRemember == InitRemember /\ [][NextRemember]_vars

(***************************************************************************)
(* Properties of the loop                                                  *)
(***************************************************************************)
\* the entries of the record's position and team whose name is at least 90%
\* similar to the record's
Similar90(seen, player) ==
    { i \in 1..Len(seen) :
        /\ player.position = seen[i].player.position
        /\ player.team = seen[i].player.team
        /\ RatioAtLeast(ratio(Text(player.name), Text(seen[i].player.name)), 9, 10) }

\* the mapping with the record merged into the entry at i, no other entry
\* touched
MergedInto(seen, i, player) ==
    [seen EXCEPT ![i].player = _merge_player_data(seen[i].player, player).merged]

\* C22: a valid record changes the key-to-record mapping in exactly one way:
\* it is merged into the entry of its exact key; otherwise into the first
\* entry of its position and team whose name is at least 0.90 similar;
\* otherwise it is inserted as a new entry; no other entry is touched, and
\* the number of entries never decreases and grows by at most one
C22_OneChangePerRecord ==
    last.op = "detect_duplicates loop" =>
        /\ ~last.raised
        /\ Len(last.after) \in {Len(last.seen), Len(last.seen) + 1}
        /\ last.after =
             IF ExactAt(last.seen, SeenKey(last.player)) # 0
             THEN MergedInto(last.seen, ExactAt(last.seen, SeenKey(last.player)),
                             last.player)
             ELSE IF Similar90(last.seen, last.player) # {}
             THEN MergedInto(last.seen, Min(Similar90(last.seen, last.player)),
                             last.player)
             ELSE Append(last.seen, [key |-> SeenKey(last.player),
                                     player |-> last.player])

(***************************************************************************)
(* detect_duplicates run on the list a first run returned                  *)
(***************************************************************************)
\* the caller hands the list the last call returned to the validator again
DetectDuplicatesOfReturned ==
    /\ Len(runs) < MaxRuns
    /\ last.op = "detect_duplicates"
    /\ ~last.raised
    /\ \E replies \in Replies :
        \E r \in {detect_duplicates(last.ret, active_players, roster_file, now,
                                    replies)} :
            /\ active_players' = r.active_players
            /\ roster_file' = r.file
            /\ runs' = Append(runs, Run("detect_duplicates of returned", r))
            /\ last' = [op |-> "detect_duplicates of returned",
                        players |-> last.ret, raised |-> r.raised, ret |-> r.ret]
            /\ UNCHANGED <<now, adp_cache, storeVars, mongodb_available, all_players,
                           sheetVars, pdf_players>>

NextSecondPass ==
    \/ DetectDuplicates
    \/ DetectDuplicatesOfReturned

SpecSecondPass == InitCleaner /\ [][NextSecondPass]_vars

\* C29: the list detect_duplicates returns is a fixpoint: run on it again,
\* detect_duplicates returns the same records in the same order, so the second
\* pass neither merges nor drops nor renames a record
C29_ReturnedIsFixpoint ==
    last.op = "detect_duplicates of returned" =>
        /\ ~last.raised
        /\ last.ret = last.players

(***************************************************************************)
(* Properties of POST /api/populate-espn                                   *)
(***************************************************************************)
\* C26: POST /api/populate-espn answers success: true only if
\* populate_from_espn built the league and inserted the players; when the
\* league cannot be fetched, when ESPN_S2 and SWID are set, or when the insert
\* fails, it answers with an error and success: false
C26_SuccessOnlyWhenInserted ==
    last.op = "api_populate_espn" =>
        /\ last.success => last.inserted
        /\ ~last.inserted => last.status \in {400, 500}

(***************************************************************************)
(* Properties of the reads after a batch                                   *)
(***************************************************************************)
\* the queries a caller may pass to search_players
Queries ==
    { [key \in {} |-> PyNone],
      [position |-> PyStr(QB)],
      [name |-> PyStr(JoshAllen), position |-> PyStr(QB)],
      [name |-> PyStr(McCaffrey), drafted |-> PyBool(FALSE)],
      [drafted |-> PyBool(TRUE)],
      [position |-> PyStr(WR)] }

\* the fields of the record equal every key/value pair of the query
EqualsEvery(player, query) ==
    \A key \in DOMAIN query : key \in DOMAIN player /\ player[key] = query[key]

\* the list holds exactly the records of data that equal the query, as often
SearchedExactly(ret, data, query) ==
    /\ \A j \in 1..Len(ret) : EqualsEvery(ret[j], query)
    /\ \A player \in {data[i] : i \in 1..Len(data)} :
         Cardinality({ j \in 1..Len(ret) : ret[j] = player })
           = IF EqualsEvery(player, query)
             THEN Cardinality({ i \in 1..Len(data) : data[i] = player })
             ELSE 0

\* a batch went whole into a store that was empty
InsertedIntoEmpty ==
    /\ store = <<>>
    /\ last'.op = "insert_players"
    /\ ~last'.raised

\* C21 as stated: after insert_players(P) into an empty store get_all_players()
\* returns exactly the records of P in insertion order, and search_players(q)
\* returns exactly the stored records whose fields equal every pair of q
C21_ReturnsBatchAsInserted ==
    [][InsertedIntoEmpty =>
        /\ get_all_players(store', FALSE) = last'.players
        /\ \A q \in Queries :
             SearchedExactly(search_players(store', q, FALSE), store', q)]_vars

NameAndPosition(player) ==
    <<Get(player, "name", PyNone), Get(player, "position", PyNone)>>

\* the places of the batch where a name and position occur for the first time
FirstPlaces(players) ==
    { i \in 1..Len(players) :
        \A j \in 1..(i - 1) : NameAndPosition(players[j]) # NameAndPosition(players[i]) }

\* the n-th smallest element of a set of numbers
RECURSIVE Nth(_, _)
Nth(S, n) == IF n = 1 THEN Min(S) ELSE Nth(S \ {Min(S)}, n - 1)

\* the places of the batch that hold the name and position of place i
SamePlaces(players, i) ==
    { j \in 1..Len(players) : NameAndPosition(players[j]) = NameAndPosition(players[i]) }

\* every field the records of that name and position carry, each with the
\* value of the last record that carries it
LaidOver(players, i) ==
    [key \in UNION { DOMAIN players[j] : j \in SamePlaces(players, i) } |->
        players[Max({ j \in SamePlaces(players, i) : key \in DOMAIN players[j] })][key]]

\* C21 amended: after insert_players(P) into an empty store get_all_players()
\* returns one record for every name and position of P, in the order of their
\* first occurrence, each holding the fields of all records of P with that
\* name and position, a later record's value over an earlier one's; it
\* returns [] when the read of the collection fails; search_players(q) returns
\* exactly the stored records whose fields equal every pair of q
C21_ReturnsBatchUpserted ==
    [][InsertedIntoEmpty =>
        /\ Len(get_all_players(store', FALSE)) = Cardinality(FirstPlaces(last'.players))
        /\ \A n \in 1..Cardinality(FirstPlaces(last'.players)) :
             get_all_players(store', FALSE)[n]
               = LaidOver(last'.players, Nth(FirstPlaces(last'.players), n))
        /\ get_all_players(store', TRUE) = <<>>
        /\ \A q \in Queries :
             SearchedExactly(search_players(store', q, FALSE), store', q)]_vars

\* a batch of two records of one name and position has gone into the store as
\* one record that is neither of them
C21_Witness ==
    /\ last.op = "insert_players" /\ ~last.raised
    /\ Len(last.players) = 2
    /\ Len(store) = 1
    /\ store[1] # last.players[1] /\ store[1] # last.players[2]
    /\ get_all_players(store, FALSE) = store
    /\ search_players(store, [position |-> PyStr(QB)], FALSE) = store

(***************************************************************************)
(* The reload scripts: fresh_database_loader.py and final_cleanup.py       *)
(***************************************************************************)
SleeperApi == <<"s","l","e","e","p","e","r","_","a","p","i">>

AdpIntegration == <<"a","d","p","_","i","n","t","e","g","r","a","t","i","o","n">>

Espn == <<"e","s","p","n">>

SF == <<"S","F">>

\* a stored record: name, position, team, and what else it carries
Stored(name, position, team, more) ==
    [name |-> PyStr(name), position |-> PyStr(position), team |-> PyStr(team)] @@ more

\* what a store holds before a reload: a record with an ADP and one without
\* any mark of quality; a free agent and a record of the Sleeper API; a
\* record twice under two spellings of the name; two running backs, one of
\* them with an ADP of None; nothing
OldStores ==
    { << Stored(JoshAllen, QB, BUF, [adp |-> PyFloat(215), drafted |-> PyBool(TRUE)]),
         Stored(JoeRook, RB, BUF, [source |-> PyStr(Espn)]) >>,
      << Stored(ZayFlowers, WR, <<"F","A">>, [adp |-> PyFloat(500)]),
         Stored(McCaffrey, RB, SF, [sleeper_id |-> PyStr(<<"4","0","3","4">>),
                                    source |-> PyStr(SleeperApi)]) >>,
      << Stored(JoshAllen, QB, BUF, [adp |-> PyFloat(215)]),
         Stored(<<"j","o","s","h"," ","a","l","l","e","n"," ">>, QB, BUF,
                [source |-> PyStr(AdpIntegration)]) >>,
      << Stored(McCaffrey, RB, SF, [adp |-> PyNone, source |-> PyStr(SleeperApi)]),
         Stored(JoeRook, RB, BUF, [adp |-> PyFloat(1200)]) >>,
      <<>> }

\* the lists _final_quality_check may hand to insert_players
FreshBatches ==
    { <<>>,
      << Stored(JoshAllen, QB, BUF, [sleeper_id |-> PyStr(<<"4","9","8","4">>),
                                     drafted |-> PyBool(FALSE),
                                     source |-> PyStr(SleeperApi)]) >>,
      << Stored(McCaffrey, RB, SF, [sleeper_id |-> PyStr(<<"4","0","3","4">>),
                                    drafted |-> PyBool(FALSE),
                                    source |-> PyStr(SleeperApi)]),
         Stored(ZayFlowers, WR, BAL, [sleeper_id |-> PyStr(<<"9","9","9","7">>),
                                      drafted |-> PyBool(FALSE),
                                      source |-> PyStr(SleeperApi)]) >> }

\* the elements of seq at the places S, in their order
Pick(seq, S) == [n \in 1..Cardinality(S) |-> seq[Nth(S, n)]]

\* str(x) inside an f-string, for a str or None
Formatted(x) == IF TypeOf(x) = "none" THEN <<"N","o","n","e">> ELSE Text(x)

\* f"{name.lower().strip()}_{position}_{team}" of final_cleanup
CleanupKey(player) ==
    <<Strip(StrLower(Text(Get(player, "name", PyStr(<<>>))))),
      Formatted(Get(player, "position", PyStr(<<>>))),
      Formatted(Get(player, "team", PyStr(<<>>)))>>

\* Step 1: the places of the players that are the first of their key
UniquePlaces(players) ==
    { i \in 1..Len(players) :
        \A j \in 1..(i - 1) : CleanupKey(players[j]) # CleanupKey(players[i]) }

valid_positions ==
    { <<"Q","B">>, <<"R","B">>, <<"W","R">>, <<"T","E">>, <<"K">>, <<"D","E","F">> }

\* x or ''
OrEmpty(x) == IF Truthy(x) THEN Text(x) ELSE <<>>

\* Step 2: valid basics and one of the three quality indicators
IsQuality(player) ==
    /\ Len(Strip(OrEmpty(Get(player, "name", PyNone)))) >= 2
    /\ StrUpper(OrEmpty(Get(player, "position", PyNone))) \in valid_positions
    /\ StrUpper(OrEmpty(Get(player, "team", PyNone))) \in nfl_teams
    /\ \/ Get(player, "adp", PyNone) # PyNone
       \/ Get(player, "sleeper_id", PyNone) # PyNone
       \/ Get(player, "source", PyNone) \in {PyStr(SleeperApi), PyStr(AdpIntegration)}

QualityPlaces(players) == { i \in UniquePlaces(players) : IsQuality(players[i]) }

\* pos_priority.get(player.get('position', 'DEF'), 6)
pos_score(player) ==
    CASE Get(player, "position", PyNone) = PyStr(<<"Q","B">>) -> 1
      [] Get(player, "position", PyNone) = PyStr(<<"R","B">>) -> 2
      [] Get(player, "position", PyNone) = PyStr(<<"W","R">>) -> 3
      [] Get(player, "position", PyNone) = PyStr(<<"T","E">>) -> 4
      [] Get(player, "position", PyNone) = PyStr(<<"K">>) -> 5
      [] OTHER -> 6

\* player.get('adp', 999), in tenths; -1 stands for None
adp_score(player) ==
    CASE "adp" \notin DOMAIN player -> 9990
      [] TypeOf(player.adp) = "float" -> player.adp.float
      [] TypeOf(player.adp) = "int" -> 10 * player.adp.int
      [] OTHER -> -1

\* the sort compares the ADP of two players of one position; None against a
\* number, or against None, raises TypeError
SortRaises(players) ==
    \E i, j \in 1..Len(players) :
        /\ i < j
        /\ pos_score(players[i]) = pos_score(players[j])
        /\ adp_score(players[i]) = -1 \/ adp_score(players[j]) = -1

\* whether sort_key puts the player at place j before the one at place i
Before(players, j, i) ==
    \/ pos_score(players[j]) < pos_score(players[i])
    \/ /\ pos_score(players[j]) = pos_score(players[i])
       /\ \/ adp_score(players[j]) < adp_score(players[i])
          \/ adp_score(players[j]) = adp_score(players[i]) /\ j < i

\* Step 3: quality_players.sort(key=sort_key), a stable sort
SortedByKey(players) ==
    [n \in 1..Len(players) |->
        players[CHOOSE i \in 1..Len(players) :
                    Cardinality({ j \in 1..Len(players) : Before(players, j, i) }) = n - 1]]

\* position_counters[position] when the player at place i is reached
PositionRank(players, i) ==
    Cardinality({ j \in 1..i : Get(players[j], "position", PyStr(<<"D","E","F">>))
                                 = Get(players[i], "position", PyStr(<<"D","E","F">>)) })

\* the two loops that write overall_rank and position_rank into the dicts
WithRanks(players) ==
    [i \in 1..Len(players) |->
        Put(Put(players[i], "overall_rank", PyInt(i)),
            "position_rank", PyInt(PositionRank(players, i)))]

\* the store once the dicts have their ranks: the dicts get_all_players hands
\* out are the local store's own, those of MongoDB are copies
RankedInPlace(data, quality) ==
    IF mongodb_available THEN data
    ELSE [i \in 1..Len(data) |->
            IF \E n \in 1..Len(quality) :
                 CleanupKey(quality[n]) = CleanupKey(data[i])
                 /\ i \in QualityPlaces(data)
            THEN (CHOOSE q \in {quality[n] : n \in 1..Len(quality)} :
                    CleanupKey(q) = CleanupKey(data[i]))
            ELSE data[i]]

\* FreshDatabaseLoader.clear_database: self.local_store.clear_all_data() on the
\* loader's own LocalDataStore
ClearDatabase ==
    /\ local_file' = <<>>
    /\ last' = [op |-> "clear_database"]
    /\ UNCHANGED <<store, players_cache, notStore>>

\* FreshDatabaseLoader.load_fresh_data when the Sleeper request succeeds
LoadFreshPlayers ==
    \E final_players \in FreshBatches :
        \E done \in Progress(final_players) :
            /\ store' = insert_players(store, final_players, done)
            /\ local_file' = IF final_players = <<>> THEN local_file
                             ELSE _save_data(local_file, store', FALSE)
            /\ players_cache' = Cached(players_cache, store')
            /\ last' = [op |-> "load_fresh_data", players |-> final_players,
                        raised |-> done < Len(final_players),
                        cleared |-> last.op = "clear_database"]
            /\ UNCHANGED notStore

\* final_cleanup() up to the sort
CleanupRaised ==
    /\ last' = [op |-> "final_cleanup", raised |-> TRUE, players |-> <<>>]
    /\ UNCHANGED <<storeVars, notStore>>

\* final_cleanup() from the ranking on: clear_all_data on a LocalDataStore()
\* of its own, then insert_players(quality_players)
CleanupReload(quality_players) ==
    \E done \in Progress(quality_players) :
        /\ store' = insert_players(RankedInPlace(store, quality_players),
                                   quality_players, done)
        /\ local_file' = IF quality_players = <<>> THEN <<>>
                         ELSE _save_data(<<>>, store', FALSE)
        /\ players_cache' = Cached(players_cache, store')
        /\ last' = [op |-> "final_cleanup", raised |-> done < Len(quality_players),
                    players |-> quality_players]
        /\ UNCHANGED notStore

\* final_cleanup()
FinalCleanup ==
    \E read_failed \in ReadFailures :
        \E players \in {get_all_players(store, read_failed)} :
            \E quality_players \in {Pick(players, QualityPlaces(players))} :
                IF SortRaises(quality_players) THEN CleanupRaised
                ELSE CleanupReload(WithRanks(SortedByKey(quality_players)))

\* a new process imports mongo_utils: without MongoDB its LocalDataStore()
\* loads local_players.json
ImportMongoUtils ==
    /\ store' = IF mongodb_available THEN store ELSE local_file
    /\ players_cache' = <<>>
    /\ last' = [op |-> "import mongo_utils"]
    /\ UNCHANGED <<local_file, notStore>>

InitReload ==
    /\ now = 0
    /\ roster_file = NoRosterFile
    /\ active_players = {}
    /\ adp_cache = NoAdpFile
    /\ sheet_players = <<>>
    /\ json_file = NoJsonFile
    /\ saved_players = <<>>
    /\ marked = Fresh(<<>>)
    /\ pdf_players = <<>>
    /\ InitQuiet
    /\ mongodb_available \in BOOLEAN
    /\ store \in OldStores
    /\ local_file = _save_data(<<>>, store, FALSE)
    /\ players_cache = <<>>

NextReload ==
    \/ ClearDatabase
    \/ LoadFreshPlayers
    \/ FinalCleanup
    \/ ImportMongoUtils

SpecReload == InitReload /\ [][NextReload]_vars

\* the records of a list
RecordsOf(players) == { players[i] : i \in 1..Len(players) }

\* C23: a full reload, clear_database followed by load_fresh_data or the
\* clear_all_data and insert_players of final_cleanup, leaves the store that
\* get_all_players reads holding exactly the freshly inserted records, over
\* MongoDB and on the local JSON fallback
C23_ReloadLeavesOnlyFreshRecords ==
    (\/ last.op = "final_cleanup" /\ ~last.raised
     \/ last.op = "load_fresh_data" /\ ~last.raised /\ last.cleared)
    => RecordsOf(get_all_players(store, FALSE))
         = RecordsOf(insert_players(<<>>, last.players, Len(last.players)))

(***************************************************************************)
(* The cleaning scripts: manual_validation.py and clean_database.py        *)
(***************************************************************************)
MalikWillis == <<"M","a","l","i","k"," ","W","i","l","l","i","s">>

known_invalid_players ==
    { <<"r","i","l","e","y"," ","n","e","a","l">>,
      <<"d","e","o","n"," ","j","a","c","k","s","o","n">>,
      StrLower(MalikWillis) }

suspicious_indicators ==
    { <<"p","r","a","c","t","i","c","e"," ","s","q","u","a","d">>,
      <<"f","u","t","u","r","e","s"," ","c","o","n","t","r","a","c","t">>,
      <<"u","n","d","r","a","f","t","e","d">>,
      <<"w","a","i","v","e","r">> }

\* sub in s
Contains(s, sub) ==
    \E i \in 1..(Len(s) - Len(sub) + 1) : SubSeq(s, i, i + Len(sub) - 1) = sub

\* x > 0 for a number or a bool
Positive(x) ==
    CASE TypeOf(x) = "float" -> x.float > 0
      [] TypeOf(x) = "int" -> x.int > 0
      [] OTHER -> x.bool

\* any(player.get(stat, 0) > 0 for stat in stats): None > 0 and str > 0 raise
\* TypeError, and any() stops at the first True
RECURSIVE HasStats(_, _)
HasStats(player, stats) ==
    IF stats = <<>> THEN [raised |-> FALSE, value |-> FALSE]
    ELSE IF TypeOf(Get(player, Head(stats), PyInt(0))) \in {"none", "str"}
    THEN [raised |-> TRUE, value |-> FALSE]
    ELSE IF Positive(Get(player, Head(stats), PyInt(0)))
    THEN [raised |-> FALSE, value |-> TRUE]
    ELSE HasStats(player, Tail(stats))

\* _is_suspicious_player once has_stats is known
Suspicious(player, has_stats) ==
    [raised |-> has_stats.raised,
     value |-> /\ ~has_stats.value
               /\ \E indicator \in suspicious_indicators :
                    Contains(StrLower(Text(Get(player, "name", PyStr(<<>>)))), indicator)]

_is_suspicious_player(player) ==
    Suspicious(player, HasStats(player, <<"projected_points", "fantasy_points", "adp">>))

\* ManualNFLValidator.validate_player: "keep", "remove", or "raise"
ManualVerdict(player) ==
    IF \/ Strip(StrLower(OrEmpty(Get(player, "name", PyNone)))) \in known_invalid_players
       \/ StrUpper(OrEmpty(Get(player, "position", PyNone))) \notin valid_positions
       \/ StrUpper(OrEmpty(Get(player, "team", PyNone))) \notin nfl_teams
    THEN "remove"
    ELSE IF _is_suspicious_player(player).raised THEN "raise"
    ELSE IF _is_suspicious_player(player).value THEN "remove"
    ELSE "keep"

ManualKeeps(player) == ManualVerdict(player) = "keep"

ManualRemoves(player) == ManualVerdict(player) = "remove"

\* clean_database once the players are validated: insert_players(valid_players)
\* when there are any
ManualUpdate(all, valid_players) ==
    \E done \in Progress(valid_players) :
        /\ store' = insert_players(store, valid_players, done)
        /\ local_file' = IF valid_players = <<>> THEN local_file
                         ELSE _save_data(local_file, store', FALSE)
        /\ players_cache' = Cached(players_cache, store')
        /\ last' = [op |-> "clean_database", raised |-> done < Len(valid_players),
                    cleaned |-> valid_players,
                    removed |-> RecordsOf(SelectSeq(all, ManualRemoves))]
        /\ UNCHANGED notStore

\* ManualNFLValidator().clean_database()
ManualCleanDatabase ==
    \E read_failed \in ReadFailures :
        \E all \in {get_all_players(store, read_failed)} :
            IF \E i \in 1..Len(all) : ManualVerdict(all[i]) = "raise"
            THEN /\ last' = [op |-> "clean_database", raised |-> TRUE,
                             cleaned |-> <<>>, removed |-> {}]
                 /\ UNCHANGED <<storeVars, notStore>>
            ELSE ManualUpdate(all, SelectSeq(all, ManualKeeps))

\* the verdicts of validate_player_data on the cleaned players
Revalidated(players, active, file, t, replies) ==
    [i \in 1..Len(players) |-> validate_player_data(active, file, t, replies, players[i])]

\* valid_players = [p for p in players if self.validator.validate_player_data(p)]
FinalValid(v) ==
    Pick([i \in 1..Len(v) |-> v[i].player], { i \in 1..Len(v) : v[i].result })

\* valid_players.sort(key=sort_key), the sort_key of final_cleanup
FinalSorted(valid_players) ==
    IF SortRaises(valid_players) THEN [raised |-> TRUE, ret |-> <<>>]
    ELSE [raised |-> FALSE, ret |-> SortedByKey(valid_players)]

\* _final_validation
_final_validation(players, active, file, t, replies) ==
    FinalSorted(FinalValid(Revalidated(players, active, file, t, replies)))

\* the places of the records validate_player_data turns down
RemovedPlaces(players, active) ==
    { i \in 1..Len(players) :
        \/ ~Normalise(players[i]).ok
        \/ ~Verdict(active, Normalise(players[i]).player) }

\* clean_and_enhance_database from Step 6 on; current is the list
\* get_all_players gave, kept the list as the validator left its dicts
CleanerUpdate(current, kept, r, f) ==
    \E done \in Progress(f.ret) :
        /\ store' = insert_players(IF mongodb_available THEN store ELSE kept,
                                   f.ret, done)
        /\ local_file' = IF f.ret = <<>> THEN local_file
                         ELSE _save_data(local_file, store', FALSE)
        /\ players_cache' = Cached(players_cache, store')
        /\ active_players' = r.active_players
        /\ roster_file' = r.file
        /\ last' = [op |-> "clean_and_enhance_database",
                    raised |-> r.raised \/ f.raised \/ done < Len(f.ret),
                    cleaned |-> f.ret,
                    removed |-> { (IF mongodb_available THEN current ELSE kept)[i] :
                                    i \in RemovedPlaces(current, r.active_players) }]
        /\ UNCHANGED <<now, adp_cache, mongodb_available, all_players, runs, sheetVars,
                       pdf_players>>

\* DatabaseCleaner().clean_and_enhance_database(add_adp, refresh_nfl_data=False):
\* the ADP source gives no data, so that _add_adp_data hands the players back
\* as they are whatever add_adp is
CleanAndEnhanceDatabase ==
    \E read_failed \in ReadFailures, replies \in Replies :
        \E current \in {get_all_players(store, read_failed)} :
            IF current = <<>>
            THEN /\ last' = [op |-> "clean_and_enhance_database", raised |-> FALSE,
                             cleaned |-> <<>>, removed |-> {}]
                 /\ UNCHANGED <<storeVars, notStore>>
            ELSE \E r \in {clean_database_players(current, {}, roster_file, now,
                                                  replies)} :
                   \E f \in {IF r.raised THEN [raised |-> TRUE, ret |-> <<>>]
                             ELSE _final_validation(r.ret, r.active_players, r.file,
                                                    now, replies)} :
                       CleanerUpdate(current, r.players, r, f)

\* what a store holds before it is cleaned: the records handed to the cleaner,
\* a player the manual validator knows as invalid, a free agent, a player
\* with an ADP of None
CleanStores ==
    Lists
    \cup { << Stored(MalikWillis, QB, <<"T","E","N">>, [adp |-> PyFloat(1500)]),
              Stored(JoshAllen, QB, BUF, [rank |-> PyStr(<<"1">>)]) >>,
           << Stored(JoshAllen, QB, BUF, [rank |-> PyInt(5)]),
              Stored(ZayFlowers, WR, <<"F","A">>, [adp |-> PyFloat(500)]) >>,
           << Stored(McCaffrey, RB, SF, [adp |-> PyNone]) >> }

InitClean ==
    /\ now = 0
    /\ roster_file = NoRosterFile
    /\ active_players = {}
    /\ adp_cache = NoAdpFile
    /\ sheet_players = <<>>
    /\ json_file = NoJsonFile
    /\ saved_players = <<>>
    /\ marked = Fresh(<<>>)
    /\ pdf_players = <<>>
    /\ InitQuiet
    /\ mongodb_available \in BOOLEAN
    /\ store \in CleanStores
    /\ local_file = _save_data(<<>>, store, FALSE)
    /\ players_cache = <<>>

NextClean ==
    \/ ManualCleanDatabase
    \/ CleanAndEnhanceDatabase

SpecClean == InitClean /\ [][NextClean]_vars

\* C24: after clean_and_enhance_database, and after
\* ManualNFLValidator.clean_database, has completed with a cleaned set that is
\* not empty, no record that validation removed is returned by get_all_players
C24_RemovedRecordsAreGone ==
    (/\ last.op \in {"clean_database", "clean_and_enhance_database"}
     /\ ~last.raised
     /\ last.cleaned # <<>>)
    => last.removed \cap RecordsOf(get_all_players(store, FALSE)) = {}

(***************************************************************************)
(* The search engine and the draft endpoints of the web application        *)
(***************************************************************************)
\* float(x or 0) and int(x or default) of a number, in tenths
NumberOr(x, default) ==
    CASE ~Truthy(x) -> default
      [] TypeOf(x) = "float" -> x.float
      [] TypeOf(x) = "int" -> 10 * x.int
      [] TypeOf(x) = "str" -> 10 * Number(x.str)
      [] OTHER -> 10

\* re.sub(r'\s+', '', s)
Unspaced(s) == SelectSeq(s, LAMBDA c : c # " ")

CharsIn(query, name) ==
    Cardinality({ i \in 1..Len(query) : \E j \in 1..Len(name) : name[j] = query[i] })

\* _fuzzy_match on the strings without their spaces: threshold 0.7
FuzzyUnspaced(query, name) ==
    /\ Len(query) # 0
    /\ Len(name) # 0
    /\ 10 * CharsIn(query, name) >= 7 * Len(query)

_fuzzy_match(query, name) == FuzzyUnspaced(Unspaced(StrLower(query)), Unspaced(StrLower(name)))

\* the search_score a name gets under a query, 0 when it does not match
search_score(query, name) ==
    CASE query = name -> 100
      [] SubSeq(name, 1, Len(query)) = query -> 90
      [] Contains(name, query) -> 70
      [] _fuzzy_match(query, name) -> 50
      [] OTHER -> 0

NameLower(player) == StrLower(Text(Get(player, "name", PyStr(<<>>))))

IsDrafted(player) == Truthy(Get(player, "drafted", PyBool(FALSE)))

\* the places of the cache that pass the availability and position filters
FilteredPlaces(cache, position, available_only) ==
    { i \in 1..Len(cache) :
        /\ available_only => ~IsDrafted(cache[i])
        /\ position # <<>> =>
             StrUpper(Text(Get(cache[i], "position", PyStr(<<>>)))) = StrUpper(position) }

\* the players at the places, highest key first; players of one key stay in
\* the order of the list (list.sort is stable, with reverse=True as well)
PlaceOf(places, key, n) ==
    CHOOSE i \in places :
        Cardinality({ j \in places : key[j] > key[i] \/ (key[j] = key[i] /\ j < i) }) = n - 1

SortedDesc(list, places, key) ==
    [n \in 1..Cardinality(places) |-> list[PlaceOf(places, key, n)]]

ProjectedPoints(player) == NumberOr(Get(player, "projected_points", PyInt(0)), 0)

\* the dicts of the cache that match get their search_score
Scored(cache, places, query) ==
    [i \in 1..Len(cache) |->
        IF i \in places /\ search_score(query, NameLower(cache[i])) > 0
        THEN Put(cache[i], "search_score", PyInt(search_score(query, NameLower(cache[i]))))
        ELSE cache[i]]

ScoredPlaces(cache, places, query) ==
    { i \in places : search_score(query, NameLower(cache[i])) > 0 }

\* PlayerSearchEngine.search_players(query, position, available_only=...) with
\* the default sort_by and max_results, on a cache that is loaded: the cache
\* as the call leaves it and the list returned
EngineSearch(cache, query, position, available_only) ==
    IF query # <<>>
    THEN [cache |-> Scored(cache, FilteredPlaces(cache, position, available_only), query),
          ret |-> SortedDesc(Scored(cache, FilteredPlaces(cache, position, available_only),
                                    query),
                             ScoredPlaces(cache, FilteredPlaces(cache, position,
                                                                available_only), query),
                             [i \in 1..Len(cache) |->
                                 100000 * search_score(query, NameLower(cache[i]))
                                 + ProjectedPoints(cache[i])])]
    ELSE [cache |-> cache,
          ret |-> SortedDesc(cache, FilteredPlaces(cache, position, available_only),
                             [i \in 1..Len(cache) |-> ProjectedPoints(cache[i])])]

\* proj_points + (30 - age) * 5 - rank * 0.5, in tenths
SleeperScore(player) ==
    ProjectedPoints(player)
    + (30 - NumberOr(Get(player, "age", PyInt(30)), 300) \div 10) * 50
    - (NumberOr(Get(player, "rank", PyInt(999)), 9990) \div 10) * 5

IsSleeper(player) ==
    /\ ~IsDrafted(player)
    /\ ProjectedPoints(player) > 1000
    /\ NumberOr(Get(player, "rank", PyInt(999)), 9990) \div 10 > 50
    /\ NumberOr(Get(player, "age", PyInt(30)), 300) \div 10 < 28

\* proj_points - max(50, 300 - rank * 2), in tenths
ValueScore(player) ==
    ProjectedPoints(player)
    - 10 * Max({50, 300 - 2 * (NumberOr(Get(player, "rank", PyInt(999)), 9990) \div 10)})

IsValue(player) ==
    /\ ~IsDrafted(player)
    /\ ProjectedPoints(player) > 0
    /\ NumberOr(Get(player, "rank", PyInt(999)), 9990) \div 10 > 0
    /\ ValueScore(player) > 200

\* the cache after a loop that writes a score into the players it picks
Picked(cache, Is(_), field, Score(_)) ==
    [i \in 1..Len(cache) |->
        IF Is(cache[i]) THEN Put(cache[i], field, PyFloat(Score(cache[i]))) ELSE cache[i]]

\* get_sleeper_picks and get_value_picks on a cache that is loaded
Picks(cache, Is(_), field, Score(_), limit) ==
    [cache |-> Picked(cache, Is, field, Score),
     ret |-> SubSeq(SortedDesc(Picked(cache, Is, field, Score),
                               { i \in 1..Len(cache) : Is(cache[i]) },
                               [i \in 1..Len(cache) |-> Score(cache[i])]),
                    1, Min({limit, Cardinality({ i \in 1..Len(cache) : Is(cache[i]) })}))]

get_sleeper_picks(cache) == Picks(cache, IsSleeper, "sleeper_score", SleeperScore, 20)

get_value_picks(cache) == Picks(cache, IsValue, "value_score", ValueScore, 15)

\* the stored dicts after the engine wrote into the dicts of its cache: on the
\* local store they are the same dicts
Aliased(data, cache) ==
    IF mongodb_available THEN data
    ELSE [i \in 1..Len(data) |-> IF i <= Len(cache) THEN cache[i] ELSE data[i]]

\* if not self.players_cache: self.refresh_cache()
Loaded(cache, data, failed) ==
    IF cache = <<>> THEN refresh_cache(data, failed) ELSE cache

\* a call of the engine: r is what it returns and how it leaves the cache
EngineCall(r, call) ==
    /\ players_cache' = r.cache
    /\ store' = Aliased(store, r.cache)
    /\ last' = [call EXCEPT !.ret = r.ret]
    /\ UNCHANGED <<local_file, notStore>>

\* the searches made: every player, a name query, the players of a position
Searches ==
    { [query |-> <<>>, position |-> <<>>],
      [query |-> <<"J","o","s","h">>, position |-> <<>>],
      [query |-> <<>>, position |-> QB] }

\* search_engine.search_players, as /api/players, /api/search and
\* /api/position/<position> call it
EngineSearchPlayers ==
    \E search \in Searches, available_only \in BOOLEAN, read_failed \in ReadFailures :
        EngineCall(EngineSearch(Loaded(players_cache, store, read_failed),
                                Strip(StrLower(search.query)), search.position,
                                available_only),
                   [op |-> "search_players", query |-> search.query,
                    position |-> search.position, available_only |-> available_only,
                    ret |-> <<>>])

\* search_engine.get_sleeper_picks(), as /api/sleepers calls it
GetSleeperPicks ==
    \E read_failed \in ReadFailures :
        EngineCall(get_sleeper_picks(Loaded(players_cache, store, read_failed)),
                   [op |-> "get_sleeper_picks", ret |-> <<>>])

\* search_engine.get_value_picks(), as /api/value-picks calls it
GetValuePicks ==
    \E read_failed \in ReadFailures :
        EngineCall(get_value_picks(Loaded(players_cache, store, read_failed)),
                   [op |-> "get_value_picks", ret |-> <<>>])

\* POST /api/draft-player (drafted) and /api/undraft-player (~drafted);
\* marked.names keeps the names a draft request marked and no undraft request
\* has released since
ApiSetDrafted(op, drafted, player_name, read_failed) ==
        \E raised \in {FALSE, mongodb_available} :
            \E r \in {IF player_name = <<>> THEN [ret |-> FALSE, data |-> store]
                      ELSE update_player_drafted_status(store, player_name, drafted,
                                                        raised)} :
                /\ store' = r.data
                /\ local_file' = IF r.ret THEN _save_data(local_file, r.data, FALSE)
                                 ELSE local_file
                /\ players_cache' = IF r.ret THEN refresh_cache(r.data, read_failed)
                                    ELSE Cached(players_cache, r.data)
                /\ marked' = IF ~r.ret THEN marked
                             ELSE IF drafted
                             THEN [marked EXCEPT !.names = @ \cup {player_name}]
                             ELSE [marked EXCEPT !.names = @ \ {player_name}]
                /\ last' = [op |-> op, player_name |-> player_name,
                            status |-> IF player_name = <<>> THEN 400
                                       ELSE IF r.ret THEN 200 ELSE 404]
                /\ UNCHANGED <<now, roster_file, active_players, adp_cache,
                               mongodb_available, all_players, runs, sheet_players,
                               json_file, saved_players, pdf_players>>

\* the player_name of a request: a stored name, a name the store may lack,
\* none
RequestNames == {JoshAllen, ZayFlowers, <<>>}

ApiDraftPlayer ==
    \E player_name \in RequestNames, read_failed \in ReadFailures :
        ApiSetDrafted("api_draft_player", TRUE, player_name, read_failed)

ApiUndraftPlayer ==
    \E player_name \in RequestNames, read_failed \in ReadFailures :
        ApiSetDrafted("api_undraft_player", FALSE, player_name, read_failed)

\* what the store holds when the application starts
ApiStores ==
    { <<>>,
      << Stored(JoshAllen, QB, BUF,
                [projected_points |-> PyFloat(3800), rank |-> PyStr(<<"1">>),
                 drafted |-> PyBool(FALSE)]),
         Stored(ZayFlowers, WR, BAL,
                [projected_points |-> PyFloat(1500), rank |-> PyInt(60),
                 age |-> PyInt(24)]) >> }

InitApi ==
    /\ now = 0
    /\ roster_file = NoRosterFile
    /\ active_players = {}
    /\ adp_cache = NoAdpFile
    /\ sheet_players = <<>>
    /\ json_file = NoJsonFile
    /\ saved_players = <<>>
    /\ marked = Fresh(<<>>)
    /\ pdf_players = <<>>
    /\ InitQuiet
    /\ mongodb_available \in BOOLEAN
    /\ store \in ApiStores
    /\ local_file = _save_data(<<>>, store, FALSE)
    /\ players_cache = <<>>

NextApi ==
    \/ ApiDraftPlayer
    \/ ApiUndraftPlayer
    \/ EngineSearchPlayers
    \/ GetSleeperPicks
    \/ GetValuePicks
    \/ ApiPopulateNfl

SpecApi == InitApi /\ [][NextApi]_vars

\* the record a draft request for the name marks is in the list
ReturnsMarked(list, data, player_name) ==
    /\ FindName(data, player_name) # 0
    /\ \E i \in 1..Len(list) :
         /\ Get(list[i], "name", PyNone) = PyStr(player_name)
         /\ Get(list[i], "position", PyNone)
              = Get(data[FindName(data, player_name)], "position", PyNone)

OmitsMarked ==
    (last.op = "search_players" /\ last.available_only)
    => \A player_name \in marked.names : ~ReturnsMarked(last.ret, store, player_name)

\* C25: after a successful POST /api/draft-player for a name every later
\* available-only search omits the record that was marked, until a successful
\* POST /api/undraft-player for the name; a request without player_name
\* answers 400 and a name not in the store answers 404, and both leave the
\* store and the search cache unchanged
C25_DraftedOmittedUntilUndrafted ==
    [][/\ OmitsMarked'
       /\ (/\ last'.op \in {"api_draft_player", "api_undraft_player"}
           /\ last'.status \in {400, 404})
          => UNCHANGED <<store, local_file, players_cache>>]_vars

\* what is persisted: the collection, or local_players.json
Persisted == IF mongodb_available THEN store ELSE local_file

\* C27: the queries of PlayerSearchEngine (search_players with a name query,
\* get_sleeper_picks, get_value_picks) leave the records of the store
\* unchanged: whatever queries and store writes have been made, no persisted
\* record carries a search_score, sleeper_score or value_score field, over
\* MongoDB and on the local JSON file
C27_QueriesLeaveNoTrace ==
    \A i \in 1..Len(Persisted) :
        DOMAIN Persisted[i] \cap {"search_score", "sleeper_score", "value_score"} = {}

(***************************************************************************)
(* The draft assistant: draft_assistant.py                                 *)
(***************************************************************************)
\* PDFPlayerSheet.parse_pdf: the Players of the dicts the parser returns
parse_pdf(player_dicts) == [i \in 1..Len(player_dicts) |-> from_dict(player_dicts[i])]

\* DraftAssistant(pdf_path, json_path) once the PDF is parsed: the sheet is
\* saved to json_path and loaded from it
AssistantBuilt(players) ==
    /\ json_file' = save(players)
    /\ saved_players' = players
    /\ sheet_players' = load(json_file')
    /\ marked' = [original |-> sheet_players', names |-> marked.names]
    /\ last' = [op |-> "DraftAssistant"]
    /\ UNCHANGED notSheet

\* DraftAssistant(pdf_path, json_path), with the pdf_path and the json_path of
\* the assistants before it
NewDraftAssistant ==
    \E players \in {parse_pdf(pdf_players)} : AssistantBuilt(players)

\* the sheet after mark_drafted is saved to json_path
MarkedAndSaved(players, player_name) ==
    /\ sheet_players' = players
    /\ json_file' = save(players)
    /\ saved_players' = players
    /\ marked' = [marked EXCEPT !.names = @ \cup {player_name}]
    /\ last' = [op |-> "mark_player_drafted", player_name |-> player_name]
    /\ UNCHANGED notSheet

\* mark_player_drafted of the assistant constructed last
MarkPlayerDrafted ==
    /\ json_file.exists
    /\ \E player_name \in MarkNames :
         MarkedAndSaved(mark_drafted(sheet_players, player_name), player_name)

\* get_next_best: available[:n]
get_next_best(players, n) ==
    SubSeq(get_available_players(players), 1,
           Min({n, Len(get_available_players(players))}))

\* get_next_best(n) of the assistant constructed last; 5 is the default
GetNextBest ==
    /\ json_file.exists
    /\ \E n \in {1, 5} :
         last' = [op |-> "get_next_best", n |-> n,
                  ret |-> get_next_best(sheet_players, n)]
    /\ UNCHANGED <<sheetVars, notSheet>>

\* no assistant constructed yet, no file at json_path; the PDF at pdf_path
\* parses to one of the lists
InitAssistant ==
    /\ now = 0
    /\ roster_file = NoRosterFile
    /\ active_players = {}
    /\ adp_cache = NoAdpFile
    /\ store = <<>>
    /\ local_file = <<>>
    /\ players_cache = <<>>
    /\ mongodb_available = FALSE
    /\ sheet_players = <<>>
    /\ json_file = NoJsonFile
    /\ saved_players = <<>>
    /\ marked = Fresh(<<>>)
    /\ pdf_players \in ParsedSheets
    /\ InitQuiet

NextAssistant ==
    \/ NewDraftAssistant
    \/ MarkPlayerDrafted
    \/ GetNextBest

SpecAssistant == InitAssistant /\ [][NextAssistant]_vars

\* the sheet has a player of the name, and the first of them, the one
\* mark_drafted marks, is not drafted
StillAvailable(players, player_name) ==
    /\ FirstNamed(players, player_name) # 0
    /\ ~Truthy(players[FirstNamed(players, player_name)].drafted)

\* C30: a player marked through mark_player_drafted is saved as drafted to
\* json_path, and in every DraftAssistant constructed later with the same
\* pdf_path and json_path he is still drafted and absent from get_next_best
C30_MarkedStaysDrafted ==
    /\ last.op = "mark_player_drafted"
       => ~StillAvailable(load(json_file), last.player_name)
    /\ last.op \in {"DraftAssistant", "get_next_best"}
       => \A player_name \in marked.names : ~StillAvailable(sheet_players, player_name)
    /\ last.op = "get_next_best"
       => \A player_name \in marked.names, i \in 1..Len(last.ret) :
            StrLower(last.ret[i].name.str) = StrLower(player_name)
            => last.ret[i] # sheet_players[FirstNamed(sheet_players, player_name)]

====
